---- MODULE Spec2Model ----
(***************************************************************************)
(* Model of the DeepCAL++ decision resolution and ranking engine           *)
(* (src/backend/core/deepcal_core.py, src/backend/core/deepcal_utils.py).  *)
(*                                                                         *)
(* Number representation.                                                  *)
(*  - Weights, multipliers and the pairwise-comparison matrix are exact    *)
(*    rationals [n |-> numerator, d |-> denominator] in lowest terms; the  *)
(*    weight functions use only + - * / and max, so the model computes     *)
(*    the value the float code approximates to within rounding.            *)
(*  - Matrix entries, separations and scores pass through square roots;    *)
(*    they are fixed-point integers: the float v is the integer            *)
(*    floor(v * SCALE).  Every fixed-point operation rounds down.          *)
(*  - Raw table columns are integers in a per-column unit (cost in units   *)
(*    of 50, time in days, reliability in hundredths, tracking 0/1);       *)
(*    vector normalisation divides each column by its own norm, so the     *)
(*    unit of a column does not change any normalised value.               *)
(***************************************************************************)
EXTENDS Integers, Sequences, FiniteSets, TLC

\* Fixed-point resolution of normalised values, separations and scores.
SCALE == 10000
\* Column norms are kept in 1/NORM_SCALE of a raw column unit.
NORM_SCALE == 100
\* Longest table built from the forwarder pool.
MaxN == 2
\* Largest component, in tenths, of the weight vectors given to
\* adjust_for_urgency on its own.
MaxTenths == 3

Min(a, b) == IF a <= b THEN a ELSE b
Max(a, b) == IF a >= b THEN a ELSE b
Abs(a) == IF a < 0 THEN -a ELSE a

RECURSIVE GCD(_, _)
GCD(a, b) == IF b = 0 THEN a ELSE GCD(b, a % b)

RECURSIVE SqrtSearch(_, _, _)
SqrtSearch(x, lo, hi) ==
    IF lo = hi THEN lo
    ELSE LET mid == (lo + hi + 1) \div 2
         IN IF mid * mid <= x THEN SqrtSearch(x, mid, hi)
                              ELSE SqrtSearch(x, lo, mid - 1)

\* floor(sqrt(x)) for 0 <= x < 2^31
ISqrt(x) == SqrtSearch(x, 0, Min(x, 46340))

RECURSIVE SumTo(_, _)
\* f[1] + ... + f[k] for an integer sequence
SumTo(f, k) == IF k = 0 THEN 0 ELSE SumTo(f, k - 1) + f[k]
Sum(f) == SumTo(f, Len(f))

\* a function over 1..n as an evaluated tuple
Tup(f) == SubSeq(f, 1, Len(f))

Reverse(s) == Tup([k \in 1..Len(s) |-> s[Len(s) + 1 - k]])

\* f.update(g): the fields of g added to f, g's value where both have a field
Merge(f, g) == g @@ f

-----------------------------------------------------------------------------
\* Exact rationals (Python floats of the weight functions)

Rat(n, d) ==
    LET g == GCD(Abs(n), Abs(d))
        s == IF d < 0 THEN -1 ELSE 1
    IN [n |-> (s * n) \div g, d |-> (s * d) \div g]

RZero == [n |-> 0, d |-> 1]
ROne == [n |-> 1, d |-> 1]
\* Sums go over the least common denominator and products cancel common
\* factors first, which keeps the intermediate integers small.
RAdd(a, b) ==
    LET g == GCD(a.d, b.d)
    IN Rat(a.n * (b.d \div g) + b.n * (a.d \div g), (a.d \div g) * b.d)
RNeg(a) == [n |-> -a.n, d |-> a.d]
RSub(a, b) == RAdd(a, RNeg(b))
RMul(a, b) ==
    LET g1 == GCD(Abs(a.n), b.d)
        g2 == GCD(Abs(b.n), a.d)
    IN Rat((a.n \div g1) * (b.n \div g2), (a.d \div g2) * (b.d \div g1))
\* a / b for b # 0
RDiv(a, b) == RMul(a, IF b.n < 0 THEN [n |-> -b.d, d |-> -b.n]
                      ELSE [n |-> b.d, d |-> b.n])
RLe(a, b) == a.n * b.d <= b.n * a.d
RLt(a, b) == a.n * b.d < b.n * a.d
RMax(a, b) == IF RLe(b, a) THEN a ELSE b

RECURSIVE RSumTo(_, _)
RSumTo(w, k) == IF k = 0 THEN RZero ELSE RAdd(RSumTo(w, k - 1), w[k])
\* sum(w) for a sequence of rationals
RSum(w) == RSumTo(w, Len(w))

\* fixed-point x times rational r, rounded down: (x * r.n) \div r.d, with x
\* split in hundreds so that no intermediate product leaves 32 bits
FMulR(x, r) ==
    LET hi == (x \div 100) * r.n
        lo == (x % 100) * r.n
    IN 100 * (hi \div r.d) + ((100 * (hi % r.d) + lo) \div r.d)

-----------------------------------------------------------------------------
\* Weight Deriver

\* Python list index 0 (cost) and 1 (time) are positions 1 and 2 here.
cost_idx == 1
time_idx == 2

\* Variant: the boost is added to the time weight and not taken from cost.
ShiftTimeFromCost_timeonly(w, time_boost) ==
    [i \in DOMAIN w |-> IF i = 2 THEN RAdd(w[i], time_boost) ELSE w[i]]

\* The two in-place updates of the "express" / "rush" branches:
\* w[time_idx] += time_boost ; w[cost_idx] -= time_boost
ShiftTimeFromCost(w, time_boost) ==
    Tup([i \in DOMAIN w |->
        IF i = time_idx THEN RAdd(w[i], time_boost)
        ELSE IF i = cost_idx THEN RSub(w[i], time_boost)
        ELSE w[i]])

\* [max(0, w) for w in adjusted_weights]
ClipNegative(w) == Tup([i \in DOMAIN w |-> RMax(RZero, w[i])])

\* Variant: the final renormalisation is skipped.
DivideBySum_skip(w) == w

\* [w / total for w in adjusted_weights], total = sum(adjusted_weights)
DivideBySum(w) == LET total == RSum(w) IN Tup([i \in DOMAIN w |-> RDiv(w[i], total)])

\* Variant: no copy is taken, the writes land in the caller's object.
CopyOf_alias(original, written) == written

\* What the caller's object holds after the callee took a copy of it
\* (weights.copy(), np.array(weights[:n]), forwarders_dict[id].copy()) and
\* wrote into the copy, leaving it as written
CopyOf(original, written) == original

\* adjusted_weights after the in-place updates of its branch, before the
\* clip rebinds the name
UrgencyShift(w, u) ==
    IF u = "express" THEN ShiftTimeFromCost(w, RMul(w[time_idx], Rat(1, 2)))
    ELSE IF u = "rush" THEN ShiftTimeFromCost(w, RMul(w[time_idx], Rat(1, 1)))
    ELSE w

\* Variant: the "rush" branch boosts by 50% like the "express" branch.
adjust_for_urgency_rushhalf(w, u) ==
    LET shifted ==
            IF u = "express" \/ u = "rush"
            THEN ShiftTimeFromCost(w, RMul(w[time_idx], Rat(1, 2)))
            ELSE w
    IN DivideBySum(ClipNegative(shifted))

adjust_for_urgency(w, u) == DivideBySum(ClipNegative(UrgencyShift(w, u)))

\* arr.sum(axis=0)
ColumnSums(arr) ==
    Tup([j \in 1..Len(arr) |-> RSum(Tup([i \in 1..Len(arr) |-> arr[i][j]]))])

build_pairwise_weights(matrix) ==
    LET n == Len(matrix)
        column_sums == ColumnSums(matrix)
        normalized ==
            Tup([i \in 1..n |->
                Tup([j \in 1..n |-> RDiv(matrix[i][j], column_sums[j])])])
        means == Tup([i \in 1..n |-> RDiv(RSum(normalized[i]), Rat(n, 1))])
    IN DivideBySum(means)

-----------------------------------------------------------------------------
\* Uncertainty Extension Layer

\* (T, I, F)
neutrosophic_transform(x, uncertainty) ==
    LET T == Max(Min(x, SCALE), 0)
        I == Min(uncertainty, SCALE - T)
        F == Max(0, SCALE - T - I)
    IN <<T, I, F>>

\* Variant: truth and falsity exchanged.
neutrosophic_score_falsity(triplet) == triplet[3] - triplet[1] - (triplet[2] \div 2)

\* T - F - 0.5 * I
neutrosophic_score(triplet) == triplet[1] - triplet[3] - (triplet[2] \div 2)

grey_transform(x, delta) == <<Max(x - delta, 0), Min(x + delta, SCALE)>>

grey_score(interval) == (interval[1] + interval[2]) \div 2

-----------------------------------------------------------------------------
\* TOPSIS Core.  A matrix is a sequence of rows, a row a sequence of integers.

Column(X, j) == Tup([i \in 1..Len(X) |-> X[i][j]])

RECURSIVE SeqMaxTo(_, _)
SeqMaxTo(col, k) ==
    IF k = 1 THEN col[1] ELSE Max(SeqMaxTo(col, k - 1), col[k])
RECURSIVE SeqMinTo(_, _)
SeqMinTo(col, k) ==
    IF k = 1 THEN col[1] ELSE Min(SeqMinTo(col, k - 1), col[k])
\* np.max(col), np.min(col)
NpMax(col) == SeqMaxTo(col, Len(col))
NpMin(col) == SeqMinTo(col, Len(col))

\* Variant: the column maximum in place of the Euclidean norm.
ColumnNorms_max(X) ==
    Tup([j \in 1..Len(X[1]) |-> NpMax(Column(X, j)) * NORM_SCALE])

\* np.linalg.norm(X, axis=0), in 1/NORM_SCALE of the column unit
ColumnNorms(X) ==
    Tup([j \in 1..Len(X[1]) |->
        ISqrt(Sum(Tup([i \in 1..Len(X) |-> X[i][j] * X[i][j]]))
              * NORM_SCALE * NORM_SCALE)])

\* norms[norms == 0] = 1e-10 ; X / norms.  A norm is 0 only when every entry
\* of the column is 0, and 0 / 1e-10 = 0.
normalize_matrix(X) ==
    LET norms == ColumnNorms(X)
    IN Tup([i \in 1..Len(X) |->
          Tup([j \in 1..Len(X[1]) |->
              IF norms[j] = 0 THEN 0
              ELSE (X[i][j] * SCALE * NORM_SCALE) \div norms[j]])])

\* norm_matrix * weights (broadcast over the rows)
ApplyWeights(norm_matrix, w) ==
    Tup([i \in 1..Len(norm_matrix) |->
        Tup([j \in 1..Len(w) |-> FMulR(norm_matrix[i][j], w[j])])])

\* Variant: the ideal value is the column minimum whatever the type.
IdealOf_min(col, t) == NpMin(col)

\* The loop body of determine_ideal for one column.
IdealOf(col, t) == IF t = "benefit" THEN NpMax(col) ELSE NpMin(col)
AntiOf(col, t) == IF t = "benefit" THEN NpMin(col) ELSE NpMax(col)

\* Returns <<ideal, anti>>
determine_ideal(X, types) ==
    << Tup([j \in 1..Len(types) |-> IdealOf(Column(X, j), types[j])]),
       Tup([j \in 1..Len(types) |-> AntiOf(Column(X, j), types[j])]) >>

\* np.sqrt(np.sum((X - ref) ** 2, axis=1))
calculate_separation(X, ref) ==
    Tup([i \in 1..Len(X) |->
        ISqrt(Sum(Tup([j \in 1..Len(ref) |-> (X[i][j] - ref[j]) * (X[i][j] - ref[j])])))])

\* Variant: the distance to the ideal in the numerator.
Closeness_splus(s_minus, s_plus) ==
    IF s_plus + s_minus = 0 THEN 0
    ELSE (s_plus * SCALE) \div (s_plus + s_minus)

\* Variant: s_minus is left out of the denominator.
Closeness_nosminus(s_minus, s_plus) ==
    IF s_plus + s_minus = 0 THEN 0 ELSE (s_minus * SCALE) \div Max(1, s_plus)

\* s_minus / (s_plus + s_minus + 1e-9).  The constant 1e-9 is far below the
\* resolution 1/SCALE: it turns 0/0 into 0 and otherwise changes the quotient
\* by less than one unit.
Closeness(s_minus, s_plus) ==
    IF s_plus + s_minus = 0 THEN 0
    ELSE (s_minus * SCALE) \div (s_plus + s_minus)

\* d_neg / (d_neg + d_pos) if (d_pos + d_neg) > 0 else 0, per criterion
criterion_contributions(x, ideal, anti) ==
    [j \in 1..Len(x) |->
        LET d_pos == (x[j] - ideal[j]) * (x[j] - ideal[j])
            d_neg == (x[j] - anti[j]) * (x[j] - anti[j])
        IN IF d_pos + d_neg > 0 THEN Rat(d_neg, d_neg + d_pos) ELSE RZero]

-----------------------------------------------------------------------------
\* Forwarder Table Builder

\* The cell of a DataFrame row for a key that its record does not have
NaN == "NaN"

\* pd.DataFrame(forwarders): one row per record in order, one column per key
\* that any record has
DataFrame(fwds) ==
    LET cols == UNION {DOMAIN fwds[i] : i \in DOMAIN fwds}
    IN Tup([i \in 1..Len(fwds) |->
               [c \in cols |-> IF c \in DOMAIN fwds[i] THEN fwds[i][c] ELSE NaN]])

\* df['tracking'].astype(int) raises ValueError when the column has a NaN
\* cell: some records have the key and some do not.
AstypeIntRaises(fwds) ==
    \E i, k \in DOMAIN fwds :
        "tracking" \in DOMAIN fwds[i] /\ "tracking" \notin DOMAIN fwds[k]

\* The table returned when astype(int) does not raise: tracking True / False
\* becomes 1 / 0; the float casts change no value of the model.
process_logistics_data(fwds) ==
    LET df == DataFrame(fwds)
    IN Tup([i \in 1..Len(df) |->
        IF "tracking" \in DOMAIN fwds[i]
        THEN [df[i] EXCEPT !.tracking = IF fwds[i].tracking THEN 1 ELSE 0]
        ELSE df[i]])

-----------------------------------------------------------------------------
\* Main ranking function

\* columns = ['cost', 'time', 'reliability'] (+ 'tracking' if in df.columns)
Columns(table) ==
    IF "tracking" \in DOMAIN table[1]
    THEN <<"cost", "time", "reliability", "tracking">>
    ELSE <<"cost", "time", "reliability">>

\* f"f{i+1}" for the 0-based row index i, written for the 1-based row i
DefaultId(i) == <<"f1", "f2", "f3", "f4", "f5">>[i]
\* f"F{i+1}"
DefaultName(i) == <<"F1", "F2", "F3", "F4", "F5">>[i]

\* for i, col in enumerate(columns):
\*     if col in weight_adjustments and i < len(weights): weights[i] *= ...
ApplyWeightAdjustments(w, columns, weight_adjustments) ==
    Tup([i \in 1..Len(w) |->
        IF i <= Len(columns) /\ columns[i] \in DOMAIN weight_adjustments
        THEN RMul(w[i], weight_adjustments[columns[i]])
        ELSE w[i]])

\* The array "weights" after the loop "weights[i] *= weight_adjustments[col]"
WeightsWritten(w, columns, td) ==
    IF "weight_adjustments" \in DOMAIN td
    THEN ApplyWeightAdjustments(w, columns, td.weight_adjustments)
    ELSE w

\* The weight vector run_topsis multiplies into the normalized matrix.
TopsisWeights(w, columns, td) ==
    LET w0 == SubSeq(w, 1, Len(columns))
    IN IF "weight_adjustments" \in DOMAIN td
       THEN DivideBySum(ApplyWeightAdjustments(w0, columns, td.weight_adjustments))
       ELSE w0

\* The "Apply logic extension" branch for one base score.
ExtendScore(s, use_n, use_g, td) ==
    IF use_n
    THEN LET uncertainty == IF "uncertainty" \in DOMAIN td
                            THEN td.uncertainty ELSE SCALE \div 10
         IN neutrosophic_score(neutrosophic_transform(s, uncertainty))
    ELSE IF use_g
    THEN LET delta == IF "grey_delta" \in DOMAIN td
                      THEN td.grey_delta ELSE SCALE \div 5
         IN grey_score(grey_transform(s, delta))
    ELSE s

Perms(n) == {p \in [1..n -> 1..n] : \A a, b \in 1..n : a # b => p[a] # p[b]}

\* np.argsort(scores): an index order with the scores ascending.  The default
\* sort kind is not stable, so the order of equal scores is any order.
ArgsortOutcomes(scores) ==
    {p \in Perms(Len(scores)) :
        \A k \in 1..(Len(scores) - 1) : scores[p[k]] <= scores[p[k + 1]]}

\* Variant: the adjusted score is not clamped.
AdjustScore_noclamp(id, score, td) ==
    IF "forwarder_adjustments" \in DOMAIN td
       /\ id \in DOMAIN td.forwarder_adjustments
    THEN FMulR(score, td.forwarder_adjustments[id])
    ELSE score

\* min(1.0, max(0.0, entry["score"] * adjustment)) when the id is a key
AdjustScore(id, score, td) ==
    IF "forwarder_adjustments" \in DOMAIN td
       /\ id \in DOMAIN td.forwarder_adjustments
    THEN Min(SCALE, Max(0, FMulR(score, td.forwarder_adjustments[id])))
    ELSE score

\* The fields added to an entry at analysis_depth >= 2, >= 3 and >= 4.
FactorFields(row, nrow, columns) ==
    Merge([costFactor |-> nrow[1], timeFactor |-> nrow[2],
           reliabilityFactor |-> nrow[3]],
          IF Len(columns) = 4 THEN [hasTracking |-> row.tracking # 0] ELSE <<>>)

RawFields(row) ==
    [cost |-> row.cost, deliveryTime |-> row.time,
     reliability |-> row.reliability,
     hasTracking |-> IF "tracking" \in DOMAIN row THEN row.tracking # 0 ELSE FALSE]

DetailFields(i, s_plus, s_minus, weighted, ideal, anti) ==
    [separation_ideal |-> s_plus[i], separation_negative |-> s_minus[i],
     criterionContributions |-> criterion_contributions(weighted[i], ideal, anti),
     commentary |-> "text"]

RECURSIVE InsertDesc(_, _)
\* place e behind every element whose score is >= e.score
InsertDesc(s, e) ==
    IF s = <<>> THEN <<e>>
    ELSE IF Head(s).score >= e.score THEN <<Head(s)>> \o InsertDesc(Tail(s), e)
    ELSE <<e>> \o s

RECURSIVE SortedDescTo(_, _)
SortedDescTo(s, k) ==
    IF k = 0 THEN <<>> ELSE InsertDesc(SortedDescTo(s, k - 1), s[k])
\* sorted(results, key=lambda x: x["score"], reverse=True): stable
SortedByScoreDesc(s) == SortedDescTo(s, Len(s))

\* Variant: the ranks given before the re-sort are kept.
ReassignRanks_keep(s) == s

\* for rank, result in enumerate(results, 1): result["rank"] = rank
ReassignRanks(s) == Tup([k \in 1..Len(s) |-> [s[k] EXCEPT !.rank = k]])

\* Variant: the weighted matrix of the first assignment is kept.
WeightedMatrix_stale(norm_matrix, w0, tw) == ApplyWeights(norm_matrix, w0)

\* weighted = norm_matrix * weights, assigned with the weights as given (w0)
\* and assigned again after the training adjustments (tw)
WeightedMatrix(norm_matrix, w0, tw) == ApplyWeights(norm_matrix, tw)

\* run_topsis up to "scores": the locals computed before the ranking.
TopsisScores(table, w, types, use_n, use_g, td) ==
    LET columns == Columns(table)
        m == Len(columns)
        n == Len(table)
        matrix == Tup([i \in 1..n |-> Tup([j \in 1..m |-> table[i][columns[j]]])])
        norm_matrix == normalize_matrix(matrix)
        tw == TopsisWeights(w, columns, td)
        weighted == WeightedMatrix(norm_matrix, SubSeq(w, 1, m), tw)
        ia == determine_ideal(weighted, SubSeq(types, 1, m))
        s_plus == calculate_separation(weighted, ia[1])
        s_minus == calculate_separation(weighted, ia[2])
        base_scores == Tup([i \in 1..n |-> Closeness(s_minus[i], s_plus[i])])
    IN [matrix |-> matrix,
        weights |-> tw, norm_matrix |-> norm_matrix, weighted |-> weighted,
        ideal |-> ia[1], anti |-> ia[2], s_plus |-> s_plus, s_minus |-> s_minus,
        base_scores |-> base_scores,
        scores |-> Tup([i \in 1..n |-> ExtendScore(base_scores[i], use_n, use_g, td)])]

\* The entry built in the loop "for rank, i in enumerate(ranked, 1)"; field
\* "row" records the table row i of the entry.
TopsisEntry(table, L, depth, td, rank, i) ==
    LET row == table[i]
        id == IF "id" \in DOMAIN row THEN row.id ELSE DefaultId(i)
        name == IF "name" \in DOMAIN row THEN row.name ELSE DefaultName(i)
        e1 == [id |-> id, name |-> name, rank |-> rank,
               score |-> AdjustScore(id, L.scores[i], td), row |-> i]
        e2 == IF depth >= 2
              THEN Merge(e1, FactorFields(row, L.norm_matrix[i], Columns(table)))
              ELSE e1
        e3 == IF depth >= 3 THEN Merge(e2, RawFields(row)) ELSE e2
    IN IF depth >= 4
       THEN Merge(e3, DetailFields(i, L.s_plus, L.s_minus, L.weighted,
                                   L.ideal, L.anti))
       ELSE e3

\* run_topsis from "ranked = np.argsort(scores)[::-1]" to its return, for the
\* outcome asc of np.argsort(scores).
TopsisResults(table, L, depth, td, asc) ==
    LET ranked == Reverse(asc)
        entries == Tup([rank \in 1..Len(table) |->
                           TopsisEntry(table, L, depth, td, rank, ranked[rank])])
    IN ReassignRanks(SortedByScoreDesc(entries))

-----------------------------------------------------------------------------
\* Sensitivity analysis (run_neutrosophic_analysis at analysis_depth >= 5)

\* new_weights[k] *= f ; new_weights = [w / sum(new_weights) for w in new_weights]
PerturbWeights(w, k, f) ==
    DivideBySum(Tup([i \in DOMAIN w |-> IF i = k THEN RMul(w[i], f) ELSE w[i]]))

calculate_new_score(result, w) ==
    FMulR(SCALE - result.costFactor, w[1])
    + FMulR(SCALE - result.timeFactor, w[2])
    + FMulR(result.reliabilityFactor, w[3])
    + FMulR(IF result.hasTracking THEN SCALE ELSE 0, w[4])

\* Cost +10%, Cost -10%, Time +10%, Time -10%, Reliability +10%, Reliability -10%
\* each ((new_score - original_score) / original_score) * 100, as a rational
calculate_sensitivity_changes(result, w) ==
    [p \in 1..6 |->
        LET k == (p + 1) \div 2
            f == IF p % 2 = 1 THEN Rat(11, 10) ELSE Rat(9, 10)
            new_score == calculate_new_score(result, PerturbWeights(w, k, f))
        IN Rat((new_score - result.score) * 100, result.score)]

\* The division by original_score raises ZeroDivisionError when it is 0.
SensitivityRaises(res) == \E k \in 1..Len(res) : res[k].score = 0

AddSensitivity(res, w) ==
    [k \in 1..Len(res) |->
        Merge(res[k],
              [sensitivityAnalysis |->
                  [weightChanges |-> <<"Cost: +10%", "Cost: -10%", "Time: +10%",
                                       "Time: -10%", "Reliability: +10%",
                                       "Reliability: -10%">>,
                   scoreChanges |-> calculate_sensitivity_changes(res[k], w)]])]

-----------------------------------------------------------------------------
\* State

VARIABLES
    pc,                 \* "ready": no call in progress; "done": a call returned
    fn,                 \* the entry point that was called
    forwarders,         \* argument: list of forwarder records
    training_data,      \* run_topsis argument / content of the training store
    weights,            \* argument: weight vector
    urgency,            \* argument of adjust_for_urgency / run_neutrosophic_analysis
    criteria_types,     \* argument: 'benefit' / 'cost' per criterion
    use_neutrosophic,   \* run_topsis flag
    use_grey,           \* run_topsis flag
    analysis_depth,     \* argument, 1..5
    pairwise,           \* argument of build_pairwise_weights
    adjusted_weights,   \* value returned by adjust_for_urgency / build_pairwise_weights
    locals,             \* locals of run_topsis when it returned
    results,            \* the returned result list
    outcome,            \* "ok" or the exception the call raised
    route,              \* argument: <<origin, destination, cargo_type>>
    supabase_data,      \* argument: the live snapshot, or None
    mirror_cache,       \* DataMirror.mirror_cache
    base_files,         \* content of base_data/<category>.json, per category
    synced              \* the snapshots given to mirror_supabase_data so far

vars == <<pc, fn, forwarders, training_data, weights, urgency, criteria_types,
          use_neutrosophic, use_grey, analysis_depth, pairwise,
          adjusted_weights, locals, results, outcome,
          route, supabase_data, mirror_cache, base_files, synced>>

\* The data-resolution state, which the ranking functions never touch.
dataVars == <<route, supabase_data, mirror_cache, base_files, synced>>

\* None, an empty list and an empty dict
None == <<>>

-----------------------------------------------------------------------------
\* Inputs

\* The first three records of generate_fallback_forwarders, which are also the
\* forwarders of test_unified_topsis.py: cost in units of 50, reliability in
\* hundredths.
AfricaLogistics ==
    [id |-> "f1", name |-> "AfricaLogistics", cost |-> 24, time |-> 14,
     reliability |-> 85, tracking |-> TRUE]
GlobalFreight ==
    [id |-> "f2", name |-> "GlobalFreight", cost |-> 19, time |-> 18,
     reliability |-> 78, tracking |-> FALSE]
ExpressShip ==
    [id |-> "f3", name |-> "ExpressShip", cost |-> 29, time |-> 10,
     reliability |-> 92, tracking |-> TRUE]

Pool == {AfricaLogistics, GlobalFreight, ExpressShip}
Scenario == <<AfricaLogistics, GlobalFreight, ExpressShip>>

WithoutTracking(f) == [k \in DOMAIN f \ {"tracking"} |-> f[k]]

TrackedLists == (UNION {[1..n -> Pool] : n \in 1..MaxN}) \cup {Scenario}
\* lists whose records all have, or all lack, the tracking field
ForwarderLists ==
    TrackedLists
    \cup {[i \in DOMAIN t |-> WithoutTracking(t[i])] : t \in TrackedLists}

\* weights = [0.4, 0.3, 0.2, 0.1]
DefaultWeights == <<Rat(4, 10), Rat(3, 10), Rat(2, 10), Rat(1, 10)>>
\* a vector whose time weight exceeds its cost weight
TimeHeavyWeights == <<Rat(2, 10), Rat(5, 10), Rat(2, 10), Rat(1, 10)>>
WeightInputs == {DefaultWeights, TimeHeavyWeights}

\* criteria_types = ['cost', 'cost', 'benefit', 'benefit']
DefaultTypes == <<"cost", "cost", "benefit", "benefit">>
TypeInputs == {DefaultTypes, <<"benefit", "cost", "cost", "benefit">>}

Urgencies == {"standard", "express", "rush"}
Depths == 1..5
\* Every analysis depth is tried on the three-forwarder scenario (with and
\* without its tracking column); the other tables are ranked at the entry
\* point's default depth.
ScenarioLists == {Scenario, [i \in DOMAIN Scenario |-> WithoutTracking(Scenario[i])]}
DepthsFor(fl, default) == IF fl \in ScenarioLists THEN Depths ELSE {default}

TrainingInputs ==
    { None,
      [weight_adjustments |-> [cost |-> Rat(3, 2), time |-> Rat(1, 2)]],
      [forwarder_adjustments |-> [f2 |-> Rat(2, 1), f3 |-> Rat(1, 2)]],
      [forwarder_adjustments |-> [f1 |-> Rat(0, 1), f2 |-> Rat(3, 1)],
       uncertainty |-> (3 * SCALE) \div 10, grey_delta |-> SCALE \div 10],
      [weight_adjustments |-> [reliability |-> Rat(2, 1), tracking |-> Rat(3, 1)],
       forwarder_adjustments |-> [f3 |-> Rat(3, 2)]] }

\* DataMirror._load_mirror_cache when no cache file exists
EmptyMirrorCache ==
    [forwarders |-> <<>>, routes |-> <<>>, rate_cards |-> <<>>, shipments |-> <<>>]

-----------------------------------------------------------------------------
\* Ranking entry points

Init ==
    /\ pc = "ready"
    /\ fn = "none"
    /\ forwarders = None
    /\ training_data = None
    /\ weights = None
    /\ urgency = "standard"
    /\ criteria_types = None
    /\ use_neutrosophic = FALSE
    /\ use_grey = FALSE
    /\ analysis_depth = 0
    /\ pairwise = None
    /\ adjusted_weights = None
    /\ locals = None
    /\ results = None
    /\ outcome = "none"
    /\ route = None
    /\ supabase_data = None
    /\ mirror_cache = EmptyMirrorCache
    /\ base_files = None
    /\ synced = <<>>

\* A direct call run_topsis(process_logistics_data(forwarders), weights, ...)
CallRunTopsis ==
    /\ pc = "ready"
    /\ \E fl \in ForwarderLists, w \in WeightInputs, ty \in TypeInputs,
          un \in BOOLEAN, ug \in BOOLEAN, td \in TrainingInputs :
         \E table \in {process_logistics_data(fl)} :
         \E L \in {TopsisScores(table, w, ty, un, ug, td)} :
            \E asc \in ArgsortOutcomes(L.scores), d \in DepthsFor(fl, 3) :
              /\ forwarders' = fl
              /\ weights' = w
              /\ criteria_types' = ty
              /\ use_neutrosophic' = un
              /\ use_grey' = ug
              /\ analysis_depth' = d
              /\ training_data' = td
              /\ locals' = Merge(L, [ranked |-> Reverse(asc),
                                     caller_weights |->
                                         CopyOf(w, WeightsWritten(w, Columns(table), td)),
                                     caller_forwarders |-> fl,
                                     caller_training_data |-> td])
              /\ results' = TopsisResults(table, L, d, td, asc)
    /\ pc' = "done"
    /\ fn' = "run_topsis"
    /\ outcome' = "ok"
    /\ UNCHANGED <<urgency, pairwise, adjusted_weights>>
    /\ UNCHANGED dataVars

\* run_neutrosophic_analysis(forwarders, weights, urgency, analysis_depth,
\* criteria_types); training_data is what get_training_data() returns.
CallRunNeutrosophicAnalysis ==
    /\ pc = "ready"
    /\ \E fl \in ForwarderLists, wopt \in {None, TimeHeavyWeights},
          u \in Urgencies,
          tyopt \in {None} \cup (TypeInputs \ {DefaultTypes}),
          td \in TrainingInputs :
         \E w \in {IF wopt = None THEN DefaultWeights ELSE wopt},
            ty \in {IF tyopt = None THEN DefaultTypes ELSE tyopt},
            table \in {process_logistics_data(fl)} :
         \E aw \in {adjust_for_urgency(w, u)} :
         \E L \in {TopsisScores(table, aw, ty, TRUE, FALSE, td)} :
            \E asc \in ArgsortOutcomes(L.scores), d \in DepthsFor(fl, 5) :
              LET res == TopsisResults(table, L, d, td, asc)
                  raises == d >= 5 /\ SensitivityRaises(res)
              IN /\ forwarders' = fl
                 /\ weights' = wopt
                 /\ urgency' = u
                 /\ criteria_types' = tyopt
                 /\ analysis_depth' = d
                 /\ training_data' = td
                 /\ adjusted_weights' = aw
                 /\ locals' = Merge(L, [ranked |-> Reverse(asc),
                                        caller_weights |->
                                            IF wopt = None THEN None
                                            ELSE CopyOf(wopt, UrgencyShift(wopt, u)),
                                        caller_forwarders |-> fl])
                 /\ results' = IF raises THEN None
                               ELSE IF d >= 5 THEN AddSensitivity(res, aw)
                               ELSE res
                 /\ outcome' = IF raises THEN "ZeroDivisionError" ELSE "ok"
    /\ pc' = "done"
    /\ fn' = "run_neutrosophic_analysis"
    /\ use_neutrosophic' = TRUE
    /\ use_grey' = FALSE
    /\ UNCHANGED pairwise
    /\ UNCHANGED dataVars

\* The caller has taken the result; the engine keeps nothing between calls.
Return ==
    /\ pc = "done"
    /\ pc' = "ready"
    /\ fn' = "none"
    /\ forwarders' = None
    /\ training_data' = None
    /\ weights' = None
    /\ urgency' = "standard"
    /\ criteria_types' = None
    /\ use_neutrosophic' = FALSE
    /\ use_grey' = FALSE
    /\ analysis_depth' = 0
    /\ pairwise' = None
    /\ adjusted_weights' = None
    /\ locals' = None
    /\ results' = None
    /\ outcome' = "none"
    /\ route' = None
    /\ supabase_data' = None
    /\ UNCHANGED <<mirror_cache, base_files, synced>>

\* Lists in which one record, or every record, lacks a key
Nameless(f) == [k \in DOMAIN f \ {"name"} |-> f[k]]
PartialLists ==
    UNION {{[fl EXCEPT ![i] = WithoutTracking(fl[i])],
            [fl EXCEPT ![i] = Nameless(fl[i])]} :
           <<fl, i>> \in {p \in TrackedLists \X (1..3) : p[2] \in DOMAIN p[1]}}
    \cup {[i \in DOMAIN fl |-> Nameless(fl[i])] : fl \in TrackedLists}
ProcessInputs == ForwarderLists \cup PartialLists

\* A direct call process_logistics_data(forwarders)
CallProcessLogisticsData ==
    /\ pc = "ready"
    /\ \E fl \in ProcessInputs :
         /\ forwarders' = fl
         /\ IF AstypeIntRaises(fl)
            THEN results' = None /\ outcome' = "ValueError"
            ELSE results' = process_logistics_data(fl) /\ outcome' = "ok"
    /\ pc' = "done"
    /\ fn' = "process_logistics_data"
    /\ UNCHANGED <<training_data, weights, urgency, criteria_types,
                   use_neutrosophic, use_grey, analysis_depth, pairwise,
                   adjusted_weights, locals>>
    /\ UNCHANGED dataVars

Next ==
    \/ CallRunTopsis
    \/ CallRunNeutrosophicAnalysis
    \/ CallProcessLogisticsData
    \/ Return

Spec == Init /\ [][Next]_vars

-----------------------------------------------------------------------------
\* Weight Deriver entry points

\* Non-negative 4-element vectors with components 0/10 .. MaxTenths/10 and a
\* positive sum; the sum is 1 for some and differs from 1 for most.
GeneralWeights ==
    {w \in [1..4 -> {Rat(k, 10) : k \in 0..MaxTenths}] :
        \E i \in 1..4 : w[i] # RZero}

PairVals == {Rat(1, 2), ROne, Rat(2, 1)}

\* The 4x4 comparison matrix with unit diagonal, upper triangle up (row by
\* row) and lower triangle the reciprocals (recip) or the same values.
PairwiseOf(up, recip) ==
    LET pos(i, j) == IF i = 1 THEN j - 1 ELSE IF i = 2 THEN j + 1 ELSE 6
    IN Tup([i \in 1..4 |->
           Tup([j \in 1..4 |->
               IF i = j THEN ROne
               ELSE IF i < j THEN up[pos(i, j)]
               ELSE IF recip THEN RDiv(ROne, up[pos(j, i)])
               ELSE up[pos(j, i)]])])

\* criteria_pairwise default of runner.py
RunnerPairwise ==
    << <<Rat(1, 1), Rat(1, 2), Rat(3, 1), Rat(2, 1)>>,
       <<Rat(2, 1), Rat(1, 1), Rat(4, 1), Rat(2, 1)>>,
       <<Rat(1, 3), Rat(1, 4), Rat(1, 1), Rat(1, 2)>>,
       <<Rat(1, 2), Rat(1, 2), Rat(2, 1), Rat(1, 1)>> >>

PairwiseInputs ==
    {PairwiseOf(up, recip) : up \in [1..6 -> PairVals], recip \in BOOLEAN}
    \cup {RunnerPairwise}

CallAdjustForUrgency ==
    /\ pc = "ready"
    /\ \E w \in GeneralWeights, u \in Urgencies :
         /\ weights' = w
         /\ urgency' = u
         /\ adjusted_weights' = adjust_for_urgency(w, u)
         /\ locals' = [caller_weights |-> CopyOf(w, UrgencyShift(w, u))]
    /\ pc' = "done"
    /\ fn' = "adjust_for_urgency"
    /\ outcome' = "ok"
    /\ UNCHANGED <<forwarders, training_data, criteria_types, use_neutrosophic,
                   use_grey, analysis_depth, pairwise, results>>
    /\ UNCHANGED dataVars

CallBuildPairwiseWeights ==
    /\ pc = "ready"
    /\ \E M \in PairwiseInputs :
         /\ pairwise' = M
         /\ adjusted_weights' = build_pairwise_weights(M)
    /\ pc' = "done"
    /\ fn' = "build_pairwise_weights"
    /\ outcome' = "ok"
    /\ UNCHANGED <<forwarders, training_data, weights, urgency, criteria_types,
                   use_neutrosophic, use_grey, analysis_depth, locals, results>>
    /\ UNCHANGED dataVars

NextWeights == CallAdjustForUrgency \/ CallBuildPairwiseWeights \/ Return

SpecWeights == Init /\ [][NextWeights]_vars

-----------------------------------------------------------------------------
\* Data Resolution Cascade (load_forwarders_for_route).  A record is a dict;
\* base_cost is in units of 50, on_time_rate and reliability in hundredths.

\* None as the value of a field or of a lookup
NoValue == "None"
\* dict.get(key, default)
Get(r, k, default) == IF k \in DOMAIN r THEN r[k] ELSE default
\* A list element that is not a dict: calling .get on it raises.
Malformed == [malformed |-> TRUE]
IsDict(r) == "malformed" \notin DOMAIN r
\* "if route_id:" and "if item_id"
Truthy(v) == v # NoValue /\ v # ""

SetMin(S) == CHOOSE x \in S : \A y \in S : x <= y
SetMax(S) == CHOOSE x \in S : \A y \in S : y <= x

\* Where "for x in list: if <hit>: ...; break" stops: at the first element
\* that is not a dict (x.get raises there) or is a hit; 0 when the loop runs
\* to the end of the list.
LoopStop(list, hits) ==
    LET stops == {i \in DOMAIN list : ~IsDict(list[i])} \cup hits
    IN IF stops = {} THEN 0 ELSE SetMin(stops)

\* {f.get('id'): f for f in forwarder_data}: membership and lookup (the last
\* record with the id is the one the dict keeps)
WithId(list, id) == {i \in DOMAIN list : Get(list[i], "id", NoValue) = id}
InDictById(list, id) == WithId(list, id) # {}
LookupById(list, id) == list[SetMax(WithId(list, id))]

\* The indices of the routes matching (origin, destination)
RouteHits(routes, origin, destination) ==
    {i \in DOMAIN routes :
        /\ IsDict(routes[i])
        /\ Get(routes[i], "origin_country", NoValue) = origin
        /\ Get(routes[i], "destination_country", NoValue) = destination}

\* forwarder['time'] = route_item.get('typical_transit_days', 15) for the
\* first route whose id is route_id
WithTime(f, routes, route_id) ==
    LET k == LoopStop(routes, {i \in DOMAIN routes :
                 IsDict(routes[i]) /\ Get(routes[i], "id", NoValue) = route_id})
    IN IF k = 0 \/ ~IsDict(routes[k]) THEN f
       ELSE [time |-> Get(routes[k], "typical_transit_days", 15)] @@ f

\* Variant: the default reliability is 0.5.
WithDefaults_half(f) ==
    f @@ [reliability |-> 50, tracking |-> FALSE]

\* if 'reliability' not in forwarder: 0.8 ; if 'tracking' not in forwarder: False
WithDefaults(f) ==
    f @@ [reliability |-> 80, tracking |-> FALSE]

\* The body of the live pass for one matching rate card whose forwarder is
\* known: the record it appends, or raised when a scan meets a non-dict.
LiveForwarder(snap, card, route_id) ==
    LET fid == Get(card, "forwarder_id", NoValue)
        services == Get(snap, "forwarder_services", <<>>)
        analytics == Get(snap, "performance_analytics", <<>>)
        sk == LoopStop(services, {i \in DOMAIN services :
                  IsDict(services[i])
                  /\ Get(services[i], "forwarder_id", NoValue) = fid})
        ak == LoopStop(analytics, {i \in DOMAIN analytics :
                  IsDict(analytics[i])
                  /\ Get(analytics[i], "forwarder_id", NoValue) = fid
                  /\ Get(analytics[i], "route_id", NoValue) = route_id})
        f1 == [cost |-> Get(card, "base_cost", 0)]
                  @@ LookupById(Get(snap, "forwarders", <<>>), fid)
        f2 == WithTime(f1, Get(snap, "routes", <<>>), route_id)
        f3 == IF sk = 0 \/ ~IsDict(services[sk]) THEN f2
              ELSE [tracking |-> Get(services[sk], "has_tracking", FALSE)] @@ f2
        f4 == IF ak = 0 \/ ~IsDict(analytics[ak]) THEN f3
              ELSE [reliability |-> Get(analytics[ak], "on_time_rate", 80)] @@ f3
    IN [raised |-> \/ (sk # 0 /\ ~IsDict(services[sk]))
                   \/ (sk # 0 /\ ak # 0 /\ ~IsDict(analytics[ak]))
                   \/ (sk = 0 /\ ak # 0 /\ ~IsDict(analytics[ak])),
        forwarder |-> WithDefaults(f4)]

\* The body of the base pass for one matching rate card.
BaseForwarder(base_forwarders, base_routes, card, route_id) ==
    LET fid == Get(card, "forwarder_id", NoValue)
        f1 == [cost |-> Get(card, "base_cost", 0)]
                  @@ LookupById(base_forwarders, fid)
    IN [raised |-> FALSE,
        forwarder |-> WithDefaults(WithTime(f1, base_routes, route_id))]

RECURSIVE CardLoop(_, _, _, _, _, _, _, _)
\* "for card in rate_cards" from card k on, acc being the forwarders appended
\* so far; an exception leaves acc as it is.
CardLoop(live, snap, fwds, routes, cards, k, key, acc) ==
    IF k > Len(cards) THEN [raised |-> FALSE, forwarders |-> acc]
    ELSE IF ~IsDict(cards[k]) THEN [raised |-> TRUE, forwarders |-> acc]
    ELSE IF /\ Get(cards[k], "route_id", NoValue) = key[1]
            /\ Get(cards[k], "cargo_type", NoValue) = key[2]
            /\ InDictById(fwds, Get(cards[k], "forwarder_id", NoValue))
    THEN LET r == IF live THEN LiveForwarder(snap, cards[k], key[1])
                  ELSE BaseForwarder(fwds, routes, cards[k], key[1])
         IN IF r.raised THEN [raised |-> TRUE, forwarders |-> acc]
            ELSE CardLoop(live, snap, fwds, routes, cards, k + 1, key,
                          Append(acc, r.forwarder))
    ELSE CardLoop(live, snap, fwds, routes, cards, k + 1, key, acc)

\* The join of one pass ("try:" block of step 1 with live, of step 2 without):
\* the forwarders collected and whether the block ended in its except clause.
JoinPass(live, snap, fwds, routes, cards, origin, destination, cargo_type) ==
    LET rk == LoopStop(routes, RouteHits(routes, origin, destination))
        route_id == IF rk = 0 \/ ~IsDict(routes[rk]) THEN NoValue
                    ELSE Get(routes[rk], "id", NoValue)
    IN IF rk # 0 /\ ~IsDict(routes[rk])
       THEN [raised |-> TRUE, forwarders |-> <<>>]
       ELSE IF ~Truthy(route_id)
       THEN [raised |-> FALSE, forwarders |-> <<>>]
       ELSE IF \E i \in DOMAIN fwds : ~IsDict(fwds[i])
       THEN [raised |-> TRUE, forwarders |-> <<>>]
       ELSE CardLoop(live, snap, fwds, routes, cards, 1,
                     <<route_id, cargo_type>>, <<>>)

\* The two records of generate_fallback_forwarders beyond the scenario's three
TransAfrica ==
    [id |-> "f4", name |-> "TransAfrica", cost |-> 22, time |-> 15,
     reliability |-> 82, tracking |-> TRUE]
FastCargo ==
    [id |-> "f5", name |-> "FastCargo", cost |-> 27, time |-> 12,
     reliability |-> 88, tracking |-> FALSE]

\* Variant: the list depends on the origin.
generate_fallback_forwarders_byorigin(origin, destination) ==
    IF origin = "KE" THEN <<AfricaLogistics, GlobalFreight, ExpressShip>>
    ELSE <<AfricaLogistics, GlobalFreight, ExpressShip, TransAfrica, FastCargo>>

\* Variant: no fallback record.
generate_fallback_forwarders_empty(origin, destination) == <<>>

generate_fallback_forwarders(origin, destination) ==
    <<AfricaLogistics, GlobalFreight, ExpressShip, TransAfrica, FastCargo>>

\* DataMirror.get_base_data(category): the base data file when it exists,
\* else the cache entry, else []
get_base_data(files, cache, category) ==
    IF category \in DOMAIN files THEN files[category]
    ELSE Get(cache, category, <<>>)

\* load_forwarders_for_route: the returned list with the outcome of each
\* step.  base is what get_base_data returns per category.
\* The records of a forwarder list after a pass emitted its records: each
\* emitted record was made from a copy of the list's record of its id.
RecordsAfter(list, emitted) ==
    Tup([i \in DOMAIN list |->
        IF /\ IsDict(list[i])
           /\ "id" \in DOMAIN list[i]
           /\ i = SetMax(WithId(list, list[i].id))
           /\ \E k \in DOMAIN emitted : emitted[k].id = list[i].id
        THEN CopyOf(list[i],
                    emitted[CHOOSE k \in DOMAIN emitted : emitted[k].id = list[i].id])
        ELSE list[i]])

\* Variant: every "if not forwarders" test succeeds.
NotForwarders_always(list) == TRUE

\* "if not forwarders:"
NotForwarders(list) == list = <<>>

load_forwarders_for_route(origin, destination, cargo_type, use_supabase_data, snap, base) ==
    LET tried_live == use_supabase_data /\ DOMAIN snap # {}
        step1 == IF tried_live
                 THEN JoinPass(TRUE, snap, Get(snap, "forwarders", <<>>),
                               Get(snap, "routes", <<>>),
                               Get(snap, "rate_cards", <<>>),
                               origin, destination, cargo_type)
                 ELSE [raised |-> FALSE, forwarders |-> <<>>]
        tried_base == NotForwarders(step1.forwarders)
        step2 == IF tried_base
                 THEN JoinPass(FALSE, None, base.forwarders, base.routes,
                               base.rate_cards, origin, destination, cargo_type)
                 ELSE [raised |-> FALSE, forwarders |-> <<>>]
        \* step 2 appends to the list that step 1 filled
        after2 == step1.forwarders \o step2.forwarders
        tried_fallback == NotForwarders(after2)
    IN [forwarders |-> IF tried_fallback
                       THEN generate_fallback_forwarders(origin, destination)
                       ELSE after2,
        tier |-> IF tried_fallback THEN "synthetic"
                 ELSE IF step1.forwarders # <<>> THEN "live"
                 ELSE "mirrored",
        tried_live |-> tried_live, live_raised |-> step1.raised,
        tried_base |-> tried_base, base_raised |-> step2.raised,
        live_forwarders |-> step1.forwarders,
        base_forwarders |-> step2.forwarders]

-----------------------------------------------------------------------------
\* Data mirror (DataMirror.mirror_supabase_data, DataMirror._merge_data).
\* An insertion-ordered dict is a sequence of [key, item] entries.

\* f"item_{i}"
ItemKey(i) ==
    <<"item_0", "item_1", "item_2", "item_3", "item_4", "item_5", "item_6",
      "item_7", "item_8", "item_9">>[i + 1]

DictHas(d, key) == \E i \in DOMAIN d : d[i].key = key
DictGet(d, key) == d[CHOOSE i \in DOMAIN d : d[i].key = key].item
\* d[key] = item: a present key keeps its position
DictSet(d, key, item) ==
    IF DictHas(d, key)
    THEN Tup([i \in DOMAIN d |->
                 IF d[i].key = key THEN [key |-> key, item |-> item] ELSE d[i]])
    ELSE Append(d, [key |-> key, item |-> item])
DictValues(d) == Tup([i \in DOMAIN d |-> d[i].item])

RECURSIVE ExistingDataDict(_, _)
\* {item.get('id', f"item_{i}"): item for i, item in enumerate(list)}, for
\* the first k items
ExistingDataDict(list, k) ==
    IF k = 0 THEN <<>>
    ELSE DictSet(ExistingDataDict(list, k - 1),
                 Get(list[k], "id", ItemKey(k - 1)), list[k])

RECURSIVE MergeLoop_replace(_, _, _)
\* Variant: an item whose id is stored replaces the stored record.
MergeLoop_replace(d, new_data, k) ==
    IF k > Len(new_data) THEN d
    ELSE LET item == new_data[k]
             item_id == Get(item, "id", NoValue)
         IN MergeLoop_replace(
                DictSet(d, IF Truthy(item_id) THEN item_id ELSE ItemKey(Len(d)),
                        item),
                new_data, k + 1)

RECURSIVE MergeLoop(_, _, _)
\* "for item in new_data" from item k on
MergeLoop(d, new_data, k) ==
    IF k > Len(new_data) THEN d
    ELSE LET item == new_data[k]
             item_id == Get(item, "id", NoValue)
         IN MergeLoop(
                IF Truthy(item_id) /\ DictHas(d, item_id)
                THEN DictSet(d, item_id, item @@ DictGet(d, item_id))
                ELSE DictSet(d, IF Truthy(item_id) THEN item_id
                                ELSE ItemKey(Len(d)), item),
                new_data, k + 1)

\* The new value of mirror_cache[key]
merge_data(cache, key, new_data) ==
    DictValues(MergeLoop(ExistingDataDict(cache[key], Len(cache[key])),
                         new_data, 1))

\* The mirror cache after the loop "for key, data in supabase_data.items()"
MirroredCache(cache, snap) ==
    [key \in DOMAIN cache \cup DOMAIN snap |->
        IF key \notin DOMAIN snap THEN cache[key]
        ELSE IF key \in DOMAIN cache THEN merge_data(cache, key, snap[key])
        ELSE snap[key]]

\* _update_base_data_files: the four base data files, rewritten from the cache
BaseCategories == {"forwarders", "routes", "rate_cards", "shipments"}
UpdatedBaseFiles(cache) ==
    [category \in BaseCategories \cap DOMAIN cache |-> cache[category]]

-----------------------------------------------------------------------------
\* Data resolution entry points

\* Most mirror_supabase_data calls in one behaviour.
MaxSyncs == 2

RouteKE_NG(days) ==
    [id |-> "r1", origin_country |-> "KE", destination_country |-> "NG",
     typical_transit_days |-> days]
Card(id, route_id, forwarder_id, cargo_type, base_cost) ==
    [id |-> id, route_id |-> route_id, forwarder_id |-> forwarder_id,
     cargo_type |-> cargo_type, base_cost |-> base_cost]

\* A complete snapshot for KE -> NG, general cargo: two forwarders, one with
\* a service record and an analytics record.
SnapA ==
    [forwarders |-> << [id |-> "fa", name |-> "Alpha"],
                       [id |-> "fb", name |-> "Beta", reliability |-> 70,
                        tracking |-> TRUE] >>,
     routes |-> << RouteKE_NG(7) >>,
     rate_cards |-> << Card("c1", "r1", "fa", "general", 20),
                       Card("c2", "r1", "fb", "general", 26) >>,
     forwarder_services |->
         << [id |-> "s1", forwarder_id |-> "fa", has_tracking |-> TRUE] >>,
     performance_analytics |->
         << [id |-> "p1", forwarder_id |-> "fa", route_id |-> "r1",
             on_time_rate |-> 95] >>]

\* Other values for the same route: some records carry only the fields that
\* changed, and there is a third forwarder.
SnapB ==
    [forwarders |-> << [id |-> "fa", name |-> "Alpha Ltd"],
                       [id |-> "fc", name |-> "Gamma"] >>,
     routes |-> << RouteKE_NG(12) >>,
     rate_cards |-> << [id |-> "c1", base_cost |-> 30],
                       Card("c3", "r1", "fc", "general", 18) >>]

\* A second route with a card for fragile cargo only, a route record without
\* transit days and a forwarder record without an id.
SnapC ==
    [forwarders |-> << [name |-> "Anon"], [id |-> "fa", name |-> "Alpha"] >>,
     routes |-> << [id |-> "r2", origin_country |-> "KE",
                    destination_country |-> "ZA"] >>,
     rate_cards |-> << Card("c4", "r2", "fa", "fragile", 40) >>]

\* Lists present and empty ({} itself is falsy and behaves as None)
EmptySnapshot ==
    [forwarders |-> <<>>, routes |-> <<>>, rate_cards |-> <<>>]
\* SnapA with a non-dict element ahead of the route
SnapBadRoutes == [SnapA EXCEPT !.routes = <<Malformed>> \o @]
\* SnapA with a non-dict element between its two rate cards
SnapBadCards ==
    [SnapA EXCEPT !.rate_cards = <<@[1], Malformed, @[2]>>]
\* SnapA with a non-dict element in its service list
SnapBadServices ==
    [SnapA EXCEPT !.forwarder_services = <<Malformed>> \o @]
\* SnapA with another KE -> NG route, which has no rate card, ahead of r1
SnapTwoRoutes ==
    [SnapA EXCEPT !.routes = << [RouteKE_NG(9) EXCEPT !.id = "r0"] >> \o @]

\* SnapA with a rate card for fragile cargo only
SnapOtherCargo ==
    [SnapA EXCEPT !.rate_cards = << Card("c5", "r1", "fa", "fragile", 22) >>]
\* SnapA without the forwarders that its rate cards name
SnapUnknownForwarder ==
    [SnapA EXCEPT !.forwarders = << [id |-> "fz", name |-> "Zeta"] >>]

SyncSnapshots == {SnapA, SnapB, SnapC}
LiveSnapshots ==
    {None, EmptySnapshot, SnapA, SnapB, SnapC, SnapBadRoutes, SnapBadCards,
     SnapBadServices, SnapTwoRoutes, SnapOtherCargo, SnapUnknownForwarder}

RouteInputs ==
    { <<"KE", "NG", "general">>, <<"KE", "NG", "fragile">>,
      <<"KE", "ZA", "fragile">>, <<"NG", "KE", "general">> }

\* What the base data files hold when they were damaged outside the program
CorruptBase ==
    [forwarders |-> <<Malformed>>, routes |-> <<Malformed>>,
     rate_cards |-> <<Malformed>>]

\* get_base_forwarders(), get_base_routes(), get_base_rate_cards()
BaseData(files, cache) ==
    [forwarders |-> get_base_data(files, cache, "forwarders"),
     routes |-> get_base_data(files, cache, "routes"),
     rate_cards |-> get_base_data(files, cache, "rate_cards")]

\* DataMirror.mirror_supabase_data(supabase_data) with a well-formed snapshot
CallMirrorSupabaseData ==
    /\ pc = "ready"
    /\ Len(synced) < MaxSyncs
    /\ \E snap \in SyncSnapshots :
         \E cache \in {MirroredCache(mirror_cache, snap)} :
           /\ supabase_data' = snap
           /\ mirror_cache' = cache
           /\ base_files' = UpdatedBaseFiles(cache)
           /\ synced' = Append(synced, snap)
    /\ pc' = "done"
    /\ fn' = "mirror_supabase_data"
    /\ outcome' = "ok"
    /\ UNCHANGED <<forwarders, training_data, weights, urgency, criteria_types,
                   use_neutrosophic, use_grey, analysis_depth, pairwise,
                   adjusted_weights, locals, results, route>>

\* load_forwarders_for_route(origin, destination, cargo_type,
\* use_supabase_data, supabase_data); base_read tells whether the base data
\* files hold what the mirror wrote or were damaged.
CallLoadForwardersForRoute ==
    /\ pc = "ready"
    /\ \E rt \in RouteInputs, snap \in LiveSnapshots, use \in BOOLEAN,
          base_read \in {"ok", "corrupt"} :
         \E base \in {IF base_read = "ok" THEN BaseData(base_files, mirror_cache)
                      ELSE CorruptBase} :
         \E r \in {load_forwarders_for_route(rt[1], rt[2], rt[3], use, snap, base)} :
           /\ route' = rt
           /\ supabase_data' = snap
           /\ results' = r.forwarders
           /\ locals' = Merge(r, [use_supabase_data |-> use, base |-> base,
                                  base_read |-> base_read,
                                  caller_snapshot |->
                                      IF "forwarders" \in DOMAIN snap
                                      THEN [snap EXCEPT !.forwarders =
                                              RecordsAfter(@, r.live_forwarders)]
                                      ELSE snap,
                                  caller_base |->
                                      RecordsAfter(base.forwarders, r.base_forwarders)])
    /\ pc' = "done"
    /\ fn' = "load_forwarders_for_route"
    /\ outcome' = "ok"
    /\ UNCHANGED <<forwarders, training_data, weights, urgency, criteria_types,
                   use_neutrosophic, use_grey, analysis_depth, pairwise,
                   adjusted_weights, mirror_cache, base_files, synced>>

\* runner.py main() for a request with origin, destination, cargoType,
\* urgency and possibly supabase_data, the other keys at their defaults.
\* data_mirror.mirror_data_from_supabase calls a method DataMirror does not
\* have, so a request with supabase_data ends in the except clause.
CallRunnerMain ==
    /\ pc = "ready"
    /\ \E rt \in RouteInputs, snap \in {None, SnapA}, u \in Urgencies,
          base_read \in {"ok", "corrupt"} :
         /\ route' = rt
         /\ supabase_data' = snap
         /\ urgency' = u
         /\ IF DOMAIN snap # {}
            THEN /\ outcome' = "AttributeError"
                 /\ results' = None
                 /\ locals' = [response |-> [status |-> "error"]]
                 /\ UNCHANGED <<forwarders, weights, adjusted_weights,
                                analysis_depth>>
            ELSE \E w \in {build_pairwise_weights(RunnerPairwise)},
                    base \in {IF base_read = "ok"
                              THEN BaseData(base_files, mirror_cache)
                              ELSE CorruptBase} :
                 \E r \in {load_forwarders_for_route(rt[1], rt[2], rt[3], TRUE,
                                                     snap, base)} :
                 \E table \in {process_logistics_data(r.forwarders)},
                    aw \in {adjust_for_urgency(w, u)} :
                 \E L \in {TopsisScores(table, aw, DefaultTypes, TRUE, FALSE, None)} :
                 \E asc \in ArgsortOutcomes(L.scores) :
                   LET res == TopsisResults(table, L, 5, None, asc)
                       raises == SensitivityRaises(res)
                   IN /\ forwarders' = r.forwarders
                      /\ weights' = w
                      /\ adjusted_weights' = aw
                      /\ analysis_depth' = 5
                      /\ results' = IF raises THEN None
                                    ELSE AddSensitivity(res, aw)
                      /\ outcome' = IF raises THEN "ZeroDivisionError" ELSE "ok"
                      /\ locals' =
                           IF raises THEN [response |-> [status |-> "error"]]
                           ELSE [tier |-> r.tier, base_read |-> base_read,
                                 response |->
                                    [analysisDepth |-> 5,
                                     dataSource |-> IF DOMAIN snap # {}
                                                    THEN "supabase"
                                                    ELSE "base_data"]]
    /\ pc' = "done"
    /\ fn' = "main"
    /\ pairwise' = RunnerPairwise
    /\ criteria_types' = DefaultTypes
    /\ use_neutrosophic' = TRUE
    /\ use_grey' = FALSE
    /\ training_data' = None
    /\ UNCHANGED <<mirror_cache, base_files, synced>>

\* The module function mirror_data_from_supabase(supabase_data): it looks up
\* data_mirror.mirror_data_from_supabase, an attribute the DataMirror
\* instance does not have, so the call raises before anything is merged.
CallMirrorDataFromSupabase ==
    /\ pc = "ready"
    /\ \E snap \in SyncSnapshots : supabase_data' = snap
    /\ pc' = "done"
    /\ fn' = "mirror_data_from_supabase"
    /\ outcome' = "AttributeError"
    /\ UNCHANGED <<forwarders, training_data, weights, urgency, criteria_types,
                   use_neutrosophic, use_grey, analysis_depth, pairwise,
                   adjusted_weights, locals, results, route, mirror_cache,
                   base_files, synced>>

NextData ==
    \/ CallMirrorSupabaseData
    \/ CallMirrorDataFromSupabase
    \/ CallLoadForwardersForRoute
    \/ CallRunnerMain
    \/ Return

SpecData == Init /\ [][NextData]_vars

\* Every entry point of the core, the mirror and the runner.  The ranking and
\* weight functions read and write nothing of the mirror, so their calls are
\* explored with the mirror empty.
NextAll ==
    \/ NextData
    \/ (synced = <<>> /\ (Next \/ NextWeights))
SpecAll == Init /\ [][NextAll]_vars

-----------------------------------------------------------------------------
\* Properties

\* A ranking call (either entry point) has returned a result list.
Ranked ==
    /\ pc = "done"
    /\ fn \in {"run_topsis", "run_neutrosophic_analysis"}
    /\ outcome = "ok"

HasForwarderAdjustments == "forwarder_adjustments" \in DOMAIN training_data

\* Rank and score of the forwarder with the given id in a result list
RankIn(res, id) == (CHOOSE k \in DOMAIN res : res[k].id = id)
ScoreIn(res, id) == res[CHOOSE k \in DOMAIN res : res[k].id = id].score

\* C1: every ranking call over N forwarders returns N records whose ranks are
\* exactly 1..N, in non-increasing order of the final score, the record of
\* rank 1 having the maximal final score.
C1_RankConsistency ==
    Ranked =>
        /\ Len(results) = Len(forwarders)
        /\ {results[k].rank : k \in DOMAIN results} = 1..Len(forwarders)
        /\ \A k \in 1..(Len(results) - 1) : results[k].score >= results[k + 1].score
        /\ \A k, j \in DOMAIN results :
              results[k].rank = 1 => results[k].score >= results[j].score

\* C1 witness: three forwarders, a forwarder adjustment that moved a
\* forwarder to the top although np.argsort had placed another one first.
C1_Witness ==
    /\ Ranked
    /\ Len(forwarders) = 3
    /\ HasForwarderAdjustments
    /\ results[1].row # locals.ranked[1]
    /\ results[1].score > results[2].score

\* C2: with forwarder_adjustments, the final score of a forwarder whose id is
\* a key is clamp(pre-adjustment score * multiplier, 0, 1), every other final
\* score is the pre-adjustment score, and a higher final score always has the
\* better (smaller) rank.
C2_AdjustedScoresDecideRank ==
    (Ranked /\ HasForwarderAdjustments) =>
        \A k \in DOMAIN results :
            LET e == results[k]
                pre == locals.scores[e.row]
                fa == training_data.forwarder_adjustments
            IN /\ e.id \in DOMAIN fa =>
                    LET product == (pre * fa[e.id].n) \div fa[e.id].d
                    IN e.score = IF product < 0 THEN 0
                                 ELSE IF product > SCALE THEN SCALE
                                 ELSE product
               /\ e.id \notin DOMAIN fa => e.score = pre
               /\ \A j \in DOMAIN results :
                     results[j].score > e.score => results[j].rank < e.rank

\* C2 witness: a multiplier lifted a forwarder above one that had the higher
\* pre-adjustment score, and it got the better rank.
C2_Witness ==
    /\ Ranked
    /\ HasForwarderAdjustments
    /\ \E k, j \in DOMAIN results :
          /\ results[k].id \in DOMAIN training_data.forwarder_adjustments
          /\ results[j].id \notin DOMAIN training_data.forwarder_adjustments
          /\ locals.scores[results[k].row] < locals.scores[results[j].row]
          /\ results[k].score > results[j].score
          /\ results[k].rank < results[j].rank

\* C3: every score of a returned result list lies in [0, 1], whatever the
\* entry point and the mode.
C3_ScoresInUnitInterval ==
    Ranked => \A k \in DOMAIN results :
                  results[k].score >= 0 /\ results[k].score <= SCALE

\* C4: the base closeness score of every forwarder lies in [0, 1].
C4_BaseScoreBounds ==
    Ranked => \A i \in DOMAIN locals.base_scores :
                  locals.base_scores[i] >= 0 /\ locals.base_scores[i] <= SCALE

\* C4 witness: two identical rows, so that S+ = S- = 0 for both.
C4_Witness ==
    /\ Ranked
    /\ Len(forwarders) = 2
    /\ forwarders[1] = forwarders[2]
    /\ locals.s_plus = <<0, 0>>
    /\ locals.s_minus = <<0, 0>>
    /\ locals.base_scores = <<0, 0>>

\* C5: every weight vector the engine produces or applies sums to 1 (here:
\* the output of adjust_for_urgency inside run_neutrosophic_analysis and the
\* vector run_topsis multiplies into the normalized matrix).
C5_AppliedWeightsSumToOne ==
    (pc = "done" /\ fn \in {"run_topsis", "run_neutrosophic_analysis"}) =>
        /\ RSum(locals.weights) = ROne
        /\ fn = "run_neutrosophic_analysis" => RSum(adjusted_weights) = ROne

\* The part of C5 about the two weight functions on their own: the outputs of
\* build_pairwise_weights and adjust_for_urgency sum to 1.
WeightFunctionsSumToOne ==
    (pc = "done" /\ fn \in {"adjust_for_urgency", "build_pairwise_weights"}) =>
        RSum(adjusted_weights) = ROne

\* The part of C5 about run_topsis when the table has its tracking column.
AppliedWeightsSumToOneWithTracking ==
    (pc = "done" /\ fn \in {"run_topsis", "run_neutrosophic_analysis"}
        /\ "tracking" \in DOMAIN forwarders[1]) =>
        RSum(locals.weights) = ROne

\* The call is adjust_for_urgency(weights, urgency) on its own.
AdjustedFor(u) == pc = "done" /\ fn = "adjust_for_urgency" /\ urgency = u

\* C6: "express" moves 0.5 * time weight, "rush" 1.0 * time weight, from the
\* cost weight (index 0) to the time weight (index 1) and touches nothing
\* else; when the cost weight covers the boost the result is the shifted
\* vector divided by the original sum, otherwise the resulting cost weight
\* is exactly 0.
C6_UrgencyShift ==
    (AdjustedFor("express") \/ AdjustedFor("rush")) =>
        LET boost == IF urgency = "express"
                     THEN RMul(weights[2], Rat(1, 2)) ELSE weights[2]
            total == RSum(weights)
            shifted == <<RSub(weights[1], boost), RAdd(weights[2], boost),
                         weights[3], weights[4]>>
        IN /\ RLe(boost, weights[1]) =>
                \A i \in 1..4 : RMul(adjusted_weights[i], total) = shifted[i]
           /\ RLt(weights[1], boost) =>
                /\ adjusted_weights[1] = RZero
                /\ \A i \in 2..4 :
                      RMul(adjusted_weights[i],
                           RAdd(RSub(total, weights[1]), boost)) = shifted[i]

\* C6 witness: [0.3, 0.2, 0.1, 0] (sum 0.6) under "express" is shifted to
\* [0.2, 0.3, 0.1, 0] and divided by 0.6.
C6_Witness ==
    /\ AdjustedFor("express")
    /\ weights = <<Rat(3, 10), Rat(2, 10), Rat(1, 10), Rat(0, 10)>>
    /\ adjusted_weights = <<Rat(1, 3), Rat(1, 2), Rat(1, 6), Rat(0, 1)>>

\* C7 as stated: for "standard" the returned vector equals the input,
\* component by component, for every input weight vector.
C7_StandardUnchanged ==
    AdjustedFor("standard") => adjusted_weights = weights

\* C7 amended: for "standard" the returned vector is the input divided by its
\* sum; it equals the input exactly when the input sums to 1.
C7_StandardNormalises ==
    AdjustedFor("standard") =>
        /\ \A i \in 1..4 : RMul(adjusted_weights[i], RSum(weights)) = weights[i]
        /\ (adjusted_weights = weights) <=> (RSum(weights) = ROne)

\* C7 witness: [0.2, 0.2, 0.2, 0.2] comes back as [0.25, 0.25, 0.25, 0.25].
C7_Witness ==
    /\ AdjustedFor("standard")
    /\ weights = <<Rat(2, 10), Rat(2, 10), Rat(2, 10), Rat(2, 10)>>
    /\ adjusted_weights = <<Rat(1, 4), Rat(1, 4), Rat(1, 4), Rat(1, 4)>>

\* Classic run_topsis on the three-forwarder scenario with weights
\* [0.4, 0.3, 0.2, 0.1], types [cost, cost, benefit, benefit], no training data.
ScenarioClassicCall ==
    /\ pc = "done"
    /\ fn = "run_topsis"
    /\ forwarders = Scenario
    /\ weights = DefaultWeights
    /\ criteria_types = DefaultTypes
    /\ ~use_neutrosophic
    /\ ~use_grey
    /\ DOMAIN training_data = {}

\* C8 as stated: the scenario ranks ExpressShip (f3) first.
C8_ExpressShipFirst ==
    ScenarioClassicCall => RankIn(results, "f3") = 1

\* C8 amended: the scenario ranks AfricaLogistics (f1) first, ExpressShip (f3)
\* second and GlobalFreight (f2) third.
C8_AfricaLogisticsFirst ==
    ScenarioClassicCall =>
        /\ RankIn(results, "f1") = 1
        /\ RankIn(results, "f3") = 2
        /\ RankIn(results, "f2") = 3

\* C8 witness: the scenario call returned, AfricaLogistics strictly ahead.
C8_Witness ==
    /\ ScenarioClassicCall
    /\ results[1].name = "AfricaLogistics"
    /\ results[2].name = "ExpressShip"
    /\ results[1].score > results[2].score

\* run_neutrosophic_analysis(scenario, urgency="rush") with the default
\* weights and types and an empty training store.
ScenarioRushCall ==
    /\ pc = "done"
    /\ fn = "run_neutrosophic_analysis"
    /\ outcome = "ok"
    /\ forwarders = Scenario
    /\ weights = None
    /\ criteria_types = None
    /\ urgency = "rush"
    /\ DOMAIN training_data = {}

\* What the same call returns for urgency="standard" (the scores are distinct,
\* so np.argsort has one outcome).
ScenarioStandardResults ==
    LET table == process_logistics_data(Scenario)
        aw == adjust_for_urgency(DefaultWeights, "standard")
        L == TopsisScores(table, aw, DefaultTypes, TRUE, FALSE, None)
    IN TopsisResults(table, L, 5, None,
                     CHOOSE asc \in ArgsortOutcomes(L.scores) : TRUE)

\* C9: "rush" turns [0.4, 0.3, 0.2, 0.1] into [0.1, 0.6, 0.2, 0.1], and with
\* it ExpressShip's rank is no worse, and its score margin over each of the
\* two competitors no smaller, than with the standard weights.
C9_RushFavoursExpressShip ==
    ScenarioRushCall =>
        /\ adjusted_weights = <<Rat(1, 10), Rat(6, 10), Rat(2, 10), Rat(1, 10)>>
        /\ RankIn(results, "f3") <= RankIn(ScenarioStandardResults, "f3")
        /\ \A c \in {"f1", "f2"} :
              ScoreIn(results, "f3") - ScoreIn(results, c)
                  >= ScoreIn(ScenarioStandardResults, "f3")
                     - ScoreIn(ScenarioStandardResults, c)

\* C9 witness: the rush call returned with ExpressShip first, which the
\* standard call ranks second.
C9_Witness ==
    /\ ScenarioRushCall
    /\ analysis_depth = 5
    /\ results[1].id = "f3"
    /\ RankIn(ScenarioStandardResults, "f3") = 2

\* The criteria types a ranking call used.
TypesUsed == IF criteria_types = None THEN DefaultTypes ELSE criteria_types

\* C10: for every column of the weighted matrix, ideal is the column maximum
\* and anti the column minimum for a 'benefit' column, ideal the minimum and
\* anti the maximum for a 'cost' column; every entry of the column lies
\* between the two.
C10_IdealAntiIdeal ==
    (pc = "done" /\ fn \in {"run_topsis", "run_neutrosophic_analysis"}) =>
        \A j \in DOMAIN locals.ideal :
            LET col == {locals.weighted[i][j] : i \in DOMAIN locals.weighted}
                hi == CHOOSE x \in col : \A y \in col : y <= x
                lo == CHOOSE x \in col : \A y \in col : x <= y
            IN /\ TypesUsed[j] = "benefit" =>
                    locals.ideal[j] = hi /\ locals.anti[j] = lo
               /\ TypesUsed[j] = "cost" =>
                    locals.ideal[j] = lo /\ locals.anti[j] = hi
               /\ \A x \in col :
                     \/ locals.anti[j] <= x /\ x <= locals.ideal[j]
                     \/ locals.ideal[j] <= x /\ x <= locals.anti[j]

\* C10 witness: a benefit column whose ideal is above its anti-ideal beside a
\* cost column whose ideal is below its anti-ideal.
C10_Witness ==
    /\ pc = "done"
    /\ fn = "run_topsis"
    /\ Len(forwarders) >= 2
    /\ criteria_types[1] = "benefit"
    /\ locals.ideal[1] > locals.anti[1]
    /\ criteria_types[2] = "cost"
    /\ locals.ideal[2] < locals.anti[2]

\* A ranking call has computed its locals (it may still fail afterwards).
Scored == pc = "done" /\ fn \in {"run_topsis", "run_neutrosophic_analysis"}

\* Sum of the squares of column j of a matrix
SquareSum(X, j) == Sum(Tup([i \in 1..Len(X) |-> X[i][j] * X[i][j]]))

\* C11: normalize_matrix keeps the shape; a column that is not all-zero has
\* sum of squares 1, to within the fixed-point resolution (each entry is
\* rounded down by less than 1/SCALE, the norm by less than 1/NORM_SCALE of a
\* column unit); an all-zero column stays all-zero.
C11_UnitColumns ==
    Scored =>
        /\ Len(locals.norm_matrix) = Len(locals.matrix)
        /\ \A i \in DOMAIN locals.matrix :
              Len(locals.norm_matrix[i]) = Len(locals.matrix[i])
        /\ \A j \in 1..Len(locals.matrix[1]) :
              IF \A i \in DOMAIN locals.matrix : locals.matrix[i][j] = 0
              THEN \A i \in DOMAIN locals.matrix : locals.norm_matrix[i][j] = 0
              ELSE /\ SquareSum(locals.norm_matrix, j)
                        >= SCALE * SCALE - 2 * Len(locals.matrix) * SCALE
                   /\ SquareSum(locals.norm_matrix, j)
                        <= SCALE * SCALE + 3 * ((SCALE * SCALE) \div NORM_SCALE)

\* C11 witness: a table with a non-zero cost column and an all-zero tracking
\* column.
C11_Witness ==
    /\ Scored
    /\ Len(locals.matrix) = 2
    /\ Len(locals.matrix[1]) = 4
    /\ \A i \in 1..2 : locals.matrix[i][4] = 0 /\ locals.norm_matrix[i][4] = 0
    /\ \A i \in 1..2 : locals.norm_matrix[i][1] > 0
    /\ SquareSum(locals.norm_matrix, 1) > SCALE * SCALE - 4 * SCALE

\* load_forwarders_for_route has returned.
Loaded == pc = "done" /\ fn = "load_forwarders_for_route"

\* The call was given a snapshot and asked to use it.
LiveGiven == Loaded /\ locals.use_supabase_data /\ DOMAIN supabase_data # {}

\* Route i of data matches the pair of rt, and data holds a rate card for
\* (its id, the cargo type of rt) whose forwarder data holds too.
ChainAt(data, rt, i) ==
    /\ IsDict(data.routes[i])
    /\ {"id", "origin_country", "destination_country"} \subseteq DOMAIN data.routes[i]
    /\ data.routes[i].origin_country = rt[1]
    /\ data.routes[i].destination_country = rt[2]
    /\ \E j \in DOMAIN data.rate_cards, k \in DOMAIN data.forwarders :
          /\ IsDict(data.rate_cards[j]) /\ IsDict(data.forwarders[k])
          /\ {"route_id", "cargo_type", "forwarder_id"}
                 \subseteq DOMAIN data.rate_cards[j]
          /\ "id" \in DOMAIN data.forwarders[k]
          /\ data.rate_cards[j].route_id = data.routes[i].id
          /\ data.rate_cards[j].cargo_type = rt[3]
          /\ data.rate_cards[j].forwarder_id = data.forwarders[k].id

\* data holds a matching route / rate card / forwarder chain for rt.
HasChain(data, rt) == \E i \in DOMAIN data.routes : ChainAt(data, rt, i)

\* Every element of every list of the snapshot is a dict.
WellFormed(snap) ==
    \A key \in DOMAIN snap : \A i \in DOMAIN snap[key] : IsDict(snap[key][i])

\* The first route of data matching the pair of rt is the one with the chain.
FirstRouteHasChain(data, rt) ==
    \E i \in DOMAIN data.routes :
        /\ ChainAt(data, rt, i)
        /\ \A h \in 1..(i - 1) :
              ~(/\ Get(data.routes[h], "origin_country", NoValue) = rt[1]
                /\ Get(data.routes[h], "destination_country", NoValue) = rt[2])

\* The returned list is the live one: the mirror was not consulted, the list
\* is what the call returns when the mirror is empty, and every record is a
\* forwarder of the snapshot with the cost of one of the snapshot's rate cards
\* for it.
LiveListReturned ==
    /\ locals.tier = "live"
    /\ ~locals.tried_base
    /\ results = load_forwarders_for_route(route[1], route[2], route[3], TRUE,
                     supabase_data, BaseData(None, EmptyMirrorCache)).forwarders
    /\ \A n \in DOMAIN results :
          \E j \in DOMAIN supabase_data.rate_cards,
             k \in DOMAIN supabase_data.forwarders :
             /\ Get(supabase_data.rate_cards[j], "forwarder_id", NoValue)
                    = results[n].id
             /\ Get(supabase_data.rate_cards[j], "base_cost", 0) = results[n].cost
             /\ Get(supabase_data.forwarders[k], "id", NoValue) = results[n].id
             /\ Get(supabase_data.forwarders[k], "name", NoValue) = results[n].name

\* C12 as stated: a live snapshot that contains a matching route, rate card
\* and forwarder decides the result alone, whatever the mirror contains.
C12_LiveChainWins ==
    (LiveGiven /\ HasChain(supabase_data, route)) => LiveListReturned

\* The part of C12 that holds: a well-formed live snapshot in which the first
\* route matching (origin, destination) has the rate card and the forwarder
\* decides the result alone, whatever the mirror contains.
FirstLiveChainWins ==
    (LiveGiven /\ WellFormed(supabase_data)
        /\ FirstRouteHasChain(supabase_data, route)) => LiveListReturned

\* The mirror holds other values for the same route (cost 30, transit 12
\* days, no tracking) and the live values are returned.
LiveOverMirror ==
    /\ LiveGiven
    /\ supabase_data = SnapA
    /\ route = <<"KE", "NG", "general">>
    /\ synced = <<SnapA, SnapB>>
    /\ locals.base_read = "ok"
    /\ HasChain(locals.base, route)
    /\ locals.base.rate_cards[1].base_cost = 30
    /\ Len(results) = 2
    /\ results[1] = [id |-> "fa", name |-> "Alpha", cost |-> 20, time |-> 7,
                     reliability |-> 95, tracking |-> TRUE]

\* Neither the snapshot given to the call nor the mirror it read holds a
\* chain for the route.
NoChainAnywhere ==
    /\ DOMAIN supabase_data = {} \/ ~HasChain(supabase_data, route)
    /\ ~HasChain(locals.base, route)

\* C13: a route triple that matches no chain in the live snapshot nor in the
\* mirror gets the fixed synthetic list, the same for every origin,
\* destination and cargo type and after any earlier calls.
C13_FallbackFixed ==
    (Loaded /\ NoChainAnywhere) =>
        /\ results = generate_fallback_forwarders("", "")
        /\ <<results[1].name, results[2].name, results[3].name,
             results[4].name, results[5].name>>
             = <<"AfricaLogistics", "GlobalFreight", "ExpressShip",
                 "TransAfrica", "FastCargo">>

\* C13 witness: after two mirror updates, a route that neither the snapshot
\* of the call nor the mirror knows.
C13_Witness ==
    /\ Loaded
    /\ route = <<"NG", "KE", "general">>
    /\ supabase_data = SnapA
    /\ locals.use_supabase_data
    /\ Len(synced) = 2
    /\ locals.base_read = "ok"
    /\ NoChainAnywhere
    /\ locals.tier = "synthetic"
    /\ Len(results) = 5

\* C14: load_forwarders_for_route returns a non-empty list for every
\* snapshot (absent, empty, malformed), mirror content and route.
C14_NonEmptyResult ==
    Loaded => outcome = "ok" /\ Len(results) >= 1

\* C14 witness: the live pass raised, the pass over the base data raised, and
\* the call still returned forwarders.
C14_Witness ==
    /\ Loaded
    /\ locals.tried_live /\ locals.live_raised
    /\ locals.tried_base /\ locals.base_raised
    /\ Len(results) = 5

\* runner.py main() has printed a response with results.
Responded == pc = "done" /\ fn = "main" /\ outcome = "ok"

\* The fields of a forwarder record resolved from real data
RealFields == {"id", "name", "cost", "time", "reliability", "tracking"}

\* C15: the caller can tell the tier that supplied the forwarders: synthetic
\* records carry a field that real records do not, and the response's
\* dataSource names the tier, reporting neither the live source nor the mirror
\* when the list is the synthetic one.
C15_TierVisible ==
    /\ (Loaded /\ locals.tier = "synthetic") =>
          \A k \in DOMAIN results : ~(DOMAIN results[k] \subseteq RealFields)
    /\ Responded =>
          /\ locals.response.dataSource = "supabase" <=> locals.tier = "live"
          /\ locals.response.dataSource = "base_data" <=> locals.tier = "mirrored"

\* A response reported "base_data" although the forwarders were the synthetic
\* ones.
SyntheticReportedAsBaseData ==
    /\ Responded
    /\ locals.tier = "synthetic"
    /\ locals.response.dataSource = "base_data"
    /\ Len(results) = 5

\* The positions <<k, i>> of the records of category key with the given id in
\* the snapshots mirrored so far, and those among them that supply a field
Seen(key, id) ==
    {p \in (DOMAIN synced) \X (1..3) :
        /\ key \in DOMAIN synced[p[1]]
        /\ p[2] \in DOMAIN synced[p[1]][key]
        /\ Get(synced[p[1]][key][p[2]], "id", NoValue) = id}
Supplying(key, id, field) ==
    {p \in Seen(key, id) : field \in DOMAIN synced[p[1]][key][p[2]]}
\* <<k, i>> comes before <<l, j>>
Before(p, q) == p[1] < q[1] \/ (p[1] = q[1] /\ p[2] < q[2])
First(S) == CHOOSE p \in S : \A q \in S \ {p} : Before(p, q)
Last(S) == CHOOSE p \in S : \A q \in S \ {p} : Before(q, p)
SeenIds(key) ==
    {Get(synced[k][key][i], "id", NoValue) :
        <<k, i>> \in {p \in (DOMAIN synced) \X (1..3) :
                        /\ key \in DOMAIN synced[p[1]]
                        /\ p[2] \in DOMAIN synced[p[1]][key]}} \ {NoValue}

Processed == pc = "done" /\ fn = "process_logistics_data"

\* C17: process_logistics_data fails with a SchemaError, and returns no
\* table, when a forwarder record lacks a name.
C17_NamelessRejected ==
    (Processed /\ \E i \in DOMAIN forwarders : "name" \notin DOMAIN forwarders[i]) =>
        outcome = "SchemaError" /\ results = None

\* A table was returned for a list with a record that has no name.
NamelessInTable ==
    /\ Processed
    /\ outcome = "ok"
    /\ \E i \in DOMAIN forwarders : "name" \notin DOMAIN forwarders[i]
    /\ Len(results) = Len(forwarders)

\* C18: process_logistics_data returns a table with one row per record in
\* input order, names preserved, tracking true / false as 1 / 0 and cost,
\* time, reliability kept as numbers; a record without tracking is in the
\* table all the same, its tracking counting as false.
C18_TableBuilt ==
    Processed =>
        /\ outcome = "ok"
        /\ Len(results) = Len(forwarders)
        /\ \A i \in DOMAIN forwarders :
              /\ \A c \in {"name", "cost", "time", "reliability"} \cap DOMAIN forwarders[i] :
                    results[i][c] = forwarders[i][c]
              /\ "tracking" \in DOMAIN forwarders[i] =>
                    results[i].tracking = IF forwarders[i].tracking THEN 1 ELSE 0
              /\ "tracking" \notin DOMAIN forwarders[i] =>
                    ("tracking" \in DOMAIN results[i] => results[i].tracking = 0)

\* The call raised for a list in which only some records have tracking.
MixedTrackingRaises ==
    /\ Processed
    /\ outcome = "ValueError"
    /\ \A i \in DOMAIN forwarders :
          {"name", "cost", "time", "reliability"} \subseteq DOMAIN forwarders[i]

\* run_topsis was called directly and returned.
TopsisReturned == pc = "done" /\ fn = "run_topsis" /\ outcome = "ok"

\* The score of base score s under the neutrosophic transform alone and under
\* the grey transform alone, with the parameters of the call
NeutrosophicOnly(s) == ExtendScore(s, TRUE, FALSE, training_data)
GreyOnly(s) == ExtendScore(s, FALSE, TRUE, training_data)

\* Each pre-adjustment score is the base score, or one transform of it, and
\* the base score itself when neither flag is set.
AtMostOneTransform ==
    TopsisReturned =>
        \A i \in DOMAIN locals.scores :
            LET s == locals.base_scores[i]
            IN /\ locals.scores[i] \in {s, NeutrosophicOnly(s), GreyOnly(s)}
               /\ (~use_neutrosophic /\ ~use_grey) => locals.scores[i] = s

\* C19: in every run_topsis call that returns results exactly one scoring mode
\* is in effect: the neutrosophic and grey flags are not both true, no score
\* has both transforms applied, and with neither flag set each pre-adjustment
\* score is the base closeness score.
C19_OneScoringMode ==
    /\ TopsisReturned => ~(use_neutrosophic /\ use_grey)
    /\ AtMostOneTransform

\* run_topsis returned a ranking for a call with both flags set; the scores
\* are the neutrosophic ones.
BothFlagsAccepted ==
    /\ TopsisReturned
    /\ use_neutrosophic /\ use_grey
    /\ Len(results) = Len(forwarders)
    /\ \A i \in DOMAIN locals.scores :
          locals.scores[i] = NeutrosophicOnly(locals.base_scores[i])

FactorNames == {"costFactor", "timeFactor", "reliabilityFactor"}
RawNames == {"cost", "deliveryTime", "reliability", "hasTracking"}
DetailNames == {"separation_ideal", "separation_negative", "criterionContributions"}

\* The fields of the entry of table row i at depth d, for the call that returned
FieldsAt(d, i) ==
    DOMAIN TopsisEntry(process_logistics_data(forwarders), locals, d,
                       training_data, 1, i)
    \cup (IF fn = "run_neutrosophic_analysis" /\ d >= 5
          THEN {"sensitivityAnalysis"} ELSE {})

\* The field set of an entry grows with the depth.
FieldsMonotone ==
    Ranked =>
        \A i \in DOMAIN forwarders, d \in 1..4 : FieldsAt(d, i) \subseteq FieldsAt(d + 1, i)

\* The gating of the fields other than hasTracking, and of hasTracking as the
\* code has it: from depth 2 on when the table has a tracking column, from
\* depth 3 on otherwise.
GatingWithTrackingAtTwo ==
    Ranked =>
        \A k \in DOMAIN results :
            LET e == results[k]
                d == analysis_depth
            IN /\ DOMAIN e = FieldsAt(d, e.row)
               /\ {"id", "name", "rank", "score"} \subseteq DOMAIN e
               /\ \A f \in FactorNames : f \in DOMAIN e <=> d >= 2
               /\ \A f \in RawNames \ {"hasTracking"} : f \in DOMAIN e <=> d >= 3
               /\ "hasTracking" \in DOMAIN e <=>
                     (d >= 3 \/ (d >= 2 /\ "tracking" \in DOMAIN forwarders[1]))
               /\ \A f \in DetailNames : f \in DOMAIN e <=> d >= 4
               /\ fn = "run_neutrosophic_analysis" =>
                     ("sensitivityAnalysis" \in DOMAIN e <=> d = 5)
               /\ fn = "run_topsis" => "sensitivityAnalysis" \notin DOMAIN e

\* C20: the fields of each result record are gated by analysis_depth d:
\* id, rank and score always; the normalized factor values iff d >= 2; the
\* raw attributes cost, deliveryTime, reliability, hasTracking iff d >= 3
\* (none of them at depth 2); separations and criterion contributions iff
\* d >= 4; sensitivityAnalysis, in the results of run_neutrosophic_analysis,
\* iff d = 5; and the field set at depth d is within that at depth d + 1.
C20_DepthGating ==
    /\ Ranked =>
          \A k \in DOMAIN results :
              LET e == results[k]
                  d == analysis_depth
              IN /\ {"id", "rank", "score"} \subseteq DOMAIN e
                 /\ \A f \in FactorNames : f \in DOMAIN e <=> d >= 2
                 /\ \A f \in RawNames : f \in DOMAIN e <=> d >= 3
                 /\ \A f \in DetailNames : f \in DOMAIN e <=> d >= 4
                 /\ fn = "run_neutrosophic_analysis" =>
                       ("sensitivityAnalysis" \in DOMAIN e <=> d = 5)
    /\ FieldsMonotone

\* A ranking at depth 2 whose entries show hasTracking, with the value of the
\* forwarder's tracking attribute, and no other raw attribute.
TrackingShownAtDepthTwo ==
    /\ Ranked
    /\ analysis_depth = 2
    /\ \A k \in DOMAIN results :
          /\ RawNames \cap DOMAIN results[k] = {"hasTracking"}
          /\ results[k].hasTracking = forwarders[results[k].row].tracking

\* C21: when two forwarders end with equal final scores, the one that stands
\* earlier in the input table gets the smaller rank.
C21_TiesKeepInputOrder ==
    Ranked =>
        \A a, b \in DOMAIN results :
            (results[a].score = results[b].score /\ results[a].row < results[b].row) =>
                results[a].rank < results[b].rank

\* Two forwarders with equal final scores were returned with the later one of
\* the input ranked first, np.argsort having kept their input order.
TieReversed ==
    /\ Ranked
    /\ Len(results) = 2
    /\ results[1].score = results[2].score
    /\ results[1].row = 2 /\ results[2].row = 1
    /\ locals.ranked = <<2, 1>>

\* The live snapshot of the call has a route for (origin, destination) but no
\* rate card of that route and cargo type whose forwarder it knows.
LiveRouteWithoutCard ==
    /\ LiveGiven
    /\ WellFormed(supabase_data)
    /\ RouteHits(supabase_data.routes, route[1], route[2]) # {}
    /\ ~HasChain(supabase_data, route)

\* C22: the tiers are tried in order and a later tier runs only when the
\* earlier one produced no forwarder: the mirror pass runs exactly when the
\* live pass produced none (as it does for a route without a usable rate
\* card), the synthetic list is returned exactly when the mirror pass ran
\* and produced none as well, and the returned list is the list of one tier.
C22_TiersInOrder ==
    Loaded =>
        /\ locals.tried_base <=> locals.live_forwarders = <<>>
        /\ ~locals.tried_live => locals.live_forwarders = <<>>
        /\ ~locals.tried_base => locals.base_forwarders = <<>>
        /\ LiveRouteWithoutCard =>
              locals.live_forwarders = <<>> /\ locals.tried_base
        /\ locals.tier = "synthetic" <=>
              (locals.live_forwarders = <<>> /\ locals.base_forwarders = <<>>)
        /\ locals.tier = "live" => results = locals.live_forwarders
        /\ locals.tier = "mirrored" => results = locals.base_forwarders
        /\ locals.tier = "synthetic" =>
              results = generate_fallback_forwarders(route[1], route[2])

\* The live snapshot had the route but no rate card for the cargo type; the
\* mirror pass ran and supplied the list.
C22_Witness ==
    /\ Loaded
    /\ LiveRouteWithoutCard
    /\ locals.tier = "mirrored"
    /\ supabase_data \in {SnapOtherCargo, SnapUnknownForwarder}
    /\ results # <<>>
    /\ results = locals.base_forwarders

\* A call without live snapshot while the mirror holds the records of exactly
\* one snapshot, D == synced[1], read back undamaged
MirrorOnly ==
    /\ Loaded
    /\ ~locals.tried_live
    /\ locals.base_read = "ok"
    /\ Len(synced) = 1

\* The list the same call returns with D as its live snapshot, the mirror empty
ResolvedLive(D) ==
    load_forwarders_for_route(route[1], route[2], route[3], TRUE, D,
                              [forwarders |-> <<>>, routes |-> <<>>,
                               rate_cards |-> <<>>]).forwarders

\* C23: the mirror pass applies the join of the live pass: with records D
\* present only as the mirror the call returns the list it returns with D as
\* the live snapshot (same forwarders, cost, time, reliability, tracking).
C23_SameJoin ==
    MirrorOnly => results = ResolvedLive(synced[1])

\* The same for record collections without forwarder_services and
\* performance_analytics
SameJoinWithoutEnrichment ==
    (MirrorOnly /\ DOMAIN synced[1] \subseteq BaseCategories) =>
        results = ResolvedLive(synced[1])

\* SnapA resolved from the mirror: Alpha has the default reliability and no
\* tracking, where the live pass gives it 0.95 and tracking.
MirrorPassWithoutEnrichment ==
    /\ MirrorOnly
    /\ synced[1] = SnapA
    /\ locals.tier = "mirrored"
    /\ results[1].name = "Alpha"
    /\ results[1].reliability = 80 /\ ~results[1].tracking
    /\ ResolvedLive(SnapA)[1].reliability = 95
    /\ ResolvedLive(SnapA)[1].tracking

\* The live pass supplied the list and did not end in its except clause.
LiveServed ==
    /\ Loaded
    /\ locals.tier = "live"
    /\ ~locals.live_raised
    /\ WellFormed(supabase_data)

\* The first route of the snapshot that equals (origin, destination)
MatchedRoute ==
    supabase_data.routes[SetMin(RouteHits(supabase_data.routes, route[1], route[2]))]

\* The rate cards of the matched route and the requested cargo type whose
\* forwarder the snapshot knows, and the k-th of them in list order
MatchedCards ==
    {j \in DOMAIN supabase_data.rate_cards :
        LET card == supabase_data.rate_cards[j]
        IN /\ Get(card, "route_id", NoValue) = MatchedRoute.id
           /\ Get(card, "cargo_type", NoValue) = route[3]
           /\ InDictById(supabase_data.forwarders, Get(card, "forwarder_id", NoValue))}
MatchedCard(k) ==
    supabase_data.rate_cards[CHOOSE j \in MatchedCards :
                                Cardinality({h \in MatchedCards : h < j}) = k - 1]

\* The service records of a forwarder and its analytics records for the
\* matched route, as sets of list indices
ServicesOf(fid) ==
    LET services == Get(supabase_data, "forwarder_services", <<>>)
    IN {i \in DOMAIN services : Get(services[i], "forwarder_id", NoValue) = fid}
AnalyticsOf(fid) ==
    LET analytics == Get(supabase_data, "performance_analytics", <<>>)
    IN {i \in DOMAIN analytics :
           /\ Get(analytics[i], "forwarder_id", NoValue) = fid
           /\ Get(analytics[i], "route_id", NoValue) = MatchedRoute.id}

\* One record per matched rate card, in order, with the cost of the card (0
\* without base_cost) and the transit days of the matched route (15 without)
LiveCostAndTime ==
    /\ Len(results) = Cardinality(MatchedCards)
    /\ \A k \in DOMAIN results :
          /\ results[k].id = MatchedCard(k).forwarder_id
          /\ results[k].cost = Get(MatchedCard(k), "base_cost", 0)
          /\ results[k].time = Get(MatchedRoute, "typical_transit_days", 15)

\* C24 as stated: reliability is the on-time rate of the analytics record of
\* (forwarder, route), or 0.8 when there is no such record; tracking is the
\* has_tracking flag of the forwarder's service record, or false when there
\* is none.
C24_LiveFieldsOrDefaults ==
    LiveServed =>
        /\ LiveCostAndTime
        /\ \A k \in DOMAIN results :
              LET fid == results[k].id
                  services == Get(supabase_data, "forwarder_services", <<>>)
                  analytics == Get(supabase_data, "performance_analytics", <<>>)
              IN /\ results[k].reliability =
                       IF AnalyticsOf(fid) # {}
                       THEN Get(analytics[SetMin(AnalyticsOf(fid))], "on_time_rate", 80)
                       ELSE 80
                 /\ results[k].tracking =
                       IF ServicesOf(fid) # {}
                       THEN Get(services[SetMin(ServicesOf(fid))], "has_tracking", FALSE)
                       ELSE FALSE

\* C24, amended: as above, but a forwarder without analytics record keeps the
\* reliability of its own forwarder record and gets 0.8 only when that record
\* has none; likewise for tracking, the service record, the forwarder record's
\* own tracking and false.
C24_LiveFieldsOwnThenDefaults ==
    LiveServed =>
        /\ LiveCostAndTime
        /\ \A k \in DOMAIN results :
              LET fid == results[k].id
                  own == LookupById(supabase_data.forwarders, fid)
                  services == Get(supabase_data, "forwarder_services", <<>>)
                  analytics == Get(supabase_data, "performance_analytics", <<>>)
              IN /\ results[k].reliability =
                       IF AnalyticsOf(fid) # {}
                       THEN Get(analytics[SetMin(AnalyticsOf(fid))], "on_time_rate", 80)
                       ELSE Get(own, "reliability", 80)
                 /\ results[k].tracking =
                       IF ServicesOf(fid) # {}
                       THEN Get(services[SetMin(ServicesOf(fid))], "has_tracking", FALSE)
                       ELSE Get(own, "tracking", FALSE)
                 /\ results[k].name = own.name

\* SnapA served live: Alpha takes reliability and tracking from its analytics
\* and service records, Beta keeps those of its own forwarder record.
C24_Witness ==
    /\ LiveServed
    /\ supabase_data = SnapA
    /\ Len(results) = 2
    /\ results[1].id = "fa" /\ results[1].reliability = 95 /\ results[1].tracking
    /\ results[1].cost = 20 /\ results[1].time = 7
    /\ results[2].id = "fb" /\ results[2].reliability = 70 /\ results[2].tracking

\* The weight vector handed to run_topsis by the call that returned
WeightsGiven == IF fn = "run_topsis" THEN weights ELSE adjusted_weights

\* The multiplier of criterion i in the training data of the call, 1 if none
Multiplier(i) ==
    LET col == <<"cost", "time", "reliability", "tracking">>[i]
    IN IF col \in DOMAIN training_data.weight_adjustments
       THEN training_data.weight_adjustments[col] ELSE ROne

\* The call had training data with weight_adjustments.
WeightsAdjusted == Scored /\ "weight_adjustments" \in DOMAIN training_data

\* C25: with weight_adjustments in the training data, run_topsis multiplies
\* each named criterion's weight by its multiplier and divides the vector by
\* its sum; the weighted matrix, the ideal and anti-ideal points, the
\* separations and the scores are those of the adjusted weights; criteria
\* without multiplier keep their proportions.
C25_AdjustedWeightsOnly ==
    WeightsAdjusted =>
        LET m == Len(locals.weights)
            product == [i \in 1..m |-> RMul(WeightsGiven[i], Multiplier(i))]
            total == RSum(product)
            ia == determine_ideal(locals.weighted, SubSeq(TypesUsed, 1, m))
        IN /\ \A i \in 1..m : locals.weights[i] = RDiv(product[i], total)
           /\ RSum(locals.weights) = ROne
           /\ \A i \in DOMAIN locals.weighted : \A j \in 1..m :
                 locals.weighted[i][j] = FMulR(locals.norm_matrix[i][j], locals.weights[j])
           /\ locals.ideal = ia[1] /\ locals.anti = ia[2]
           /\ locals.s_plus = calculate_separation(locals.weighted, locals.ideal)
           /\ locals.s_minus = calculate_separation(locals.weighted, locals.anti)
           /\ \A i \in DOMAIN locals.base_scores :
                 locals.base_scores[i] = Closeness(locals.s_minus[i], locals.s_plus[i])
           /\ \A i, j \in 1..m :
                 (Multiplier(i) = ROne /\ Multiplier(j) = ROne) =>
                     RMul(locals.weights[i], WeightsGiven[j])
                        = RMul(locals.weights[j], WeightsGiven[i])

\* Cost weight times 1.5 and time weight times 0.5 on (0.4, 0.3, 0.2, 0.1):
\* the applied weights are (0.6, 0.15, 0.2, 0.1) / 1.05 and the weighted
\* matrix differs from the one of the weights as given.
C25_Witness ==
    /\ WeightsAdjusted
    /\ fn = "run_topsis"
    /\ weights = DefaultWeights
    /\ training_data.weight_adjustments = [cost |-> Rat(3, 2), time |-> Rat(1, 2)]
    /\ locals.weights = <<Rat(4, 7), Rat(1, 7), Rat(4, 21), Rat(2, 21)>>
    /\ locals.weighted # ApplyWeights(locals.norm_matrix, weights)
    /\ Len(forwarders) >= 2

\* run_neutrosophic_analysis returned at depth 5, with sensitivity reports.
SensitivityReported ==
    /\ Ranked
    /\ fn = "run_neutrosophic_analysis"
    /\ analysis_depth = 5

\* The six perturbations in report order: criterion and factor
Perturbations ==
    << <<1, Rat(11, 10)>>, <<1, Rat(9, 10)>>, <<2, Rat(11, 10)>>,
       <<2, Rat(9, 10)>>, <<3, Rat(11, 10)>>, <<3, Rat(9, 10)>> >>

\* The six entries are in the order cost +10%, cost -10%, time +10%,
\* time -10%, reliability +10%, reliability -10%, each the change of
\* calculate_new_score under the renormalized perturbed weights relative to
\* the reported score.
SixChangesInOrder ==
    SensitivityReported =>
        \A k \in DOMAIN results :
            LET sa == results[k].sensitivityAnalysis
            IN /\ Len(sa.scoreChanges) = 6
               /\ sa.weightChanges = <<"Cost: +10%", "Cost: -10%", "Time: +10%",
                                       "Time: -10%", "Reliability: +10%",
                                       "Reliability: -10%">>
               /\ \A p \in 1..6 :
                     LET c == Perturbations[p][1]
                         scaled == [i \in 1..4 |->
                                      IF i = c
                                      THEN RMul(adjusted_weights[i], Perturbations[p][2])
                                      ELSE adjusted_weights[i]]
                         total == RSum(scaled)
                         perturbed == [i \in 1..4 |-> RDiv(scaled[i], total)]
                     IN /\ RSum(perturbed) = ROne
                        /\ sa.scoreChanges[p] =
                              Rat((calculate_new_score(results[k], perturbed)
                                      - results[k].score) * 100,
                                  results[k].score)

\* C26: at depth 5 each sensitivity report has six entries in the order
\* cost +10%, cost -10%, time +10%, time -10%, reliability +10%,
\* reliability -10%, each 100 * (s(w') - s(w)) / s(w) for one scoring
\* function s, w' the renormalized perturbed weights and s(w), the score under
\* the unperturbed weights, the forwarder's reported score.
C26_SensitivityOfReportedScore ==
    /\ SixChangesInOrder
    /\ SensitivityReported =>
          \A k \in DOMAIN results :
              calculate_new_score(results[k], adjusted_weights) = results[k].score

\* A report whose six changes are all above +20% although each perturbation
\* moves one weight by a tenth: the score recomputed with the unperturbed
\* weights is itself more than 1.2 times the reported score.
SensitivityBaselineDiffers ==
    /\ SensitivityReported
    /\ \E k \in DOMAIN results :
          /\ 10 * calculate_new_score(results[k], adjusted_weights) > 12 * results[k].score
          /\ \A p \in 1..6 :
                LET ch == results[k].sensitivityAnalysis.scoreChanges[p]
                IN ch.n > 20 * ch.d

\* mirror_data_from_supabase was called, directly or by runner main() for a
\* request that carries a snapshot.
MirrorEntryCalled ==
    /\ pc = "done"
    /\ fn \in {"mirror_data_from_supabase", "main"}
    /\ DOMAIN supabase_data # {}

\* C27: mirror_data_from_supabase merges the snapshot into the mirror and
\* returns True or False; it never raises, so a request with a live snapshot
\* goes on to resolution and ranking.
C27_MirrorEntryReturns ==
    MirrorEntryCalled =>
        /\ outcome = "ok"
        /\ synced # <<>> /\ synced[Len(synced)] = supabase_data
        /\ fn = "main" => results # None

\* A request with a snapshot ended in the error response, nothing merged and
\* nothing ranked.
SnapshotRequestFails ==
    /\ MirrorEntryCalled
    /\ fn = "main"
    /\ outcome = "AttributeError"
    /\ locals.response.status = "error"
    /\ results = None
    /\ synced = <<>>

TransformLevels == {0, SCALE \div 10, SCALE \div 5, (3 * SCALE) \div 10, SCALE \div 2, SCALE}

\* The place of input row i in the returned ranking
PlaceOf(i) == CHOOSE k \in DOMAIN results : results[k].row = i

\* C29: the neutrosophic recombination and the grey midpoint are
\* non-decreasing in the base score, for every uncertainty and delta between
\* 0 and 1; so a ranking made without forwarder adjustments, in classic,
\* neutrosophic or grey mode, places the forwarder with the higher base score
\* first whenever the two scores it ranks are distinct.
C29_TransformsKeepOrder ==
    (Ranked /\ ~HasForwarderAdjustments) =>
        \A i, j \in DOMAIN locals.base_scores :
            locals.base_scores[i] < locals.base_scores[j] =>
                /\ \A u \in TransformLevels :
                      /\ neutrosophic_score(neutrosophic_transform(locals.base_scores[i], u))
                            <= neutrosophic_score(neutrosophic_transform(locals.base_scores[j], u))
                      /\ grey_score(grey_transform(locals.base_scores[i], u))
                            <= grey_score(grey_transform(locals.base_scores[j], u))
                /\ locals.scores[i] <= locals.scores[j]
                /\ locals.scores[i] # locals.scores[j] => PlaceOf(j) < PlaceOf(i)

\* A grey-mode ranking of two forwarders, one of whose base scores lies where
\* the interval is cut at 0 or at 1: the transformed scores differ from the
\* base scores and the forwarder with the higher base score stands first.
C29_Witness ==
    /\ Ranked
    /\ fn = "run_topsis"
    /\ use_grey /\ ~use_neutrosophic
    /\ ~HasForwarderAdjustments
    /\ Len(results) = 2
    /\ locals.base_scores[1] < locals.base_scores[2]
    /\ locals.scores[1] # locals.base_scores[1]
    /\ locals.scores[1] < locals.scores[2]
    /\ results[1].row = 2
    /\ results[2].row = 1

\* A neutrosophic ranking of two forwarders with different base scores, the
\* forwarder with the higher base score first.
NeutrosophicKeepsOrder ==
    /\ Ranked
    /\ use_neutrosophic
    /\ ~HasForwarderAdjustments
    /\ Len(results) = 2
    /\ locals.base_scores[2] < locals.base_scores[1]
    /\ locals.scores[2] < locals.scores[1]
    /\ locals.scores[1] # locals.base_scores[1]
    /\ results[1].row = 1


\* run_neutrosophic_analysis was called at depth 5 with a table whose rows
\* all have cost, time, reliability and tracking.
DepthFiveCall ==
    /\ pc = "done"
    /\ fn = "run_neutrosophic_analysis"
    /\ analysis_depth = 5
    /\ Len(forwarders) >= 1
    /\ \A i \in DOMAIN forwarders :
          {"cost", "time", "reliability", "tracking"} \subseteq DOMAIN forwarders[i]

\* C30: run_neutrosophic_analysis at depth 5 returns normally for every such
\* table, weight vector, urgency and training data, with six finite score
\* changes for every forwarder, also when a final score is exactly 0.
C30_DepthFiveReturns ==
    DepthFiveCall =>
        /\ outcome = "ok"
        /\ Len(results) = Len(forwarders)
        /\ \A k \in DOMAIN results :
              LET changes == results[k].sensitivityAnalysis.scoreChanges
              IN /\ Len(changes) = 6
                 /\ \A p \in 1..6 : changes[p].d # 0

\* A depth-5 call in which a forwarder adjustment clamps a final score to 0:
\* the division by that score raises ZeroDivisionError and nothing is returned.
ZeroScoreRaises ==
    /\ DepthFiveCall
    /\ outcome = "ZeroDivisionError"
    /\ results = None
    /\ HasForwarderAdjustments
    /\ \E i \in DOMAIN forwarders :
          /\ forwarders[i].id \in DOMAIN training_data.forwarder_adjustments
          /\ AdjustScore(forwarders[i].id, locals.scores[i], training_data) = 0

\* The calls at depth 5 that return are those in which no final score is 0.
DepthFiveReturnsUnlessZero ==
    DepthFiveCall =>
        (outcome = "ok" <=>
            \A i \in DOMAIN forwarders :
                AdjustScore(forwarders[i].id, locals.scores[i], training_data) # 0)

=============================================================================
